---- MODULE Spec2Model ----
(***************************************************************************)
(* Model of the messaging actor of the dead-drop application               *)
(* (src-tauri/src/p2p.rs), the host commands that drive it (src/main.rs)   *)
(* and the message primitives it uses (src-tauri/src/crypto.rs).           *)
(*                                                                         *)
(* Peers "A" and "B" each run the host commands and one actor.  A third    *)
(* party, the outsider, holds a key pair of its own, runs no actor and     *)
(* publishes arbitrary frames on the peers' inbox topics.                  *)
(***************************************************************************)
EXTENDS Integers, Sequences, FiniteSets, Bags, TLC

(***************************************************************************)
(* Bounds of the model.                                                    *)
(***************************************************************************)
\* message ids handed out by send_ghost_message (uuid v4, all distinct)
MaxMsgs == 2
\* frames the outsider publishes
MaxInject == 1
\* commands in a channel in the specifications that do not fill it
MaxQueued == 2
\* the clock stops here (seconds)
MaxTime == 390
\* nonces the random generator may return
MaxNonce == 1
\* host calls of a peer suspended in send at one time
MaxWaiting == 1
\* message ids in LiveSpec and SpecChan
FewMsgs == 1

(***************************************************************************)
(* Program constants.                                                      *)
(***************************************************************************)
\* message.data.len() < 32, [0u8; 32]
PUBKEY_LEN == 32
NONCE_SIZE == 12
\* mpsc::channel::<P2PCommand>(100)
CHANNEL_CAPACITY == 100
\* tokio::time::sleep(Duration::from_secs(60))
SWEEP_PERIOD == 60
\* pending_acks.cleanup_old(300)
ACK_TTL == 300

\* the clock advances in steps of half a sweep period
TickStep == SWEEP_PERIOD \div 2

Peers == {"A", "B"}
Outsider == "E"
Parties == Peers \cup {Outsider}
Ids == 1..MaxMsgs
Nonces == 1..MaxNonce
Contents == {"ping"}
None == "None"

(***************************************************************************)
(* X25519, scaled down to the multiplicative group modulo a small prime:   *)
(* a private key is a scalar, the public key is Generator^scalar and the   *)
(* shared secret is peer_public^scalar.                                    *)
(***************************************************************************)
GroupPrime == 23
Generator == 5

RECURSIVE PowMod(_, _)
PowMod(b, e) == IF e = 0 THEN 1 ELSE (b * PowMod(b, e - 1)) % GroupPrime

\* StaticSecret of each party
PrivateKey(p) == CASE p = "A" -> 3 [] p = "B" -> 5 [] OTHER -> 7

(***************************************************************************)
(* A byte string is kept as its length and its big-endian value,           *)
(* [len, val]: len bytes, the leading ones zero, that spell val.           *)
(***************************************************************************)
Bytes(len, val) == [len |-> len, val |-> val]

\* [0u8; 32] with copy_from_slice of the bytes that spell v
KeyBytes(v) == Bytes(PUBKEY_LEN, v)

\* the number of bytes that spell v without a leading zero byte
RECURSIVE ByteCount(_)
ByteCount(v) == IF v = 0 THEN 0 ELSE 1 + ByteCount(v \div 256)

\* PublicKey::from(&private_key), as bytes
PublicKeyTable == [p \in Parties |-> KeyBytes(PowMod(Generator, PrivateKey(p)))]
PublicKeyOf(p) == PublicKeyTable[p]

\* A faulty variant of shared_secret, which C25 must tell from it: the
\* scalar is applied to the base point and not to the peer's key.
shared_secret_of_base(p, peer_public) == PowMod(Generator, PrivateKey(p))

\* Identity::shared_secret: private_key.diffie_hellman(peer_public)
shared_secret(p, peer_public) ==
    PowMod(peer_public.val % GroupPrime, PrivateKey(p))

(***************************************************************************)
(* Base58 (bs58).  A string of base58 text is kept as the number of "1"    *)
(* characters it starts with and the characters that follow, [ones,        *)
(* digits].                                                                *)
(***************************************************************************)
Alphabet ==
    << "1", "2", "3", "4", "5", "6", "7", "8", "9", "A", "B", "C", "D", "E",
       "F", "G", "H", "J", "K", "L", "M", "N", "P", "Q", "R", "S", "T", "U",
       "V", "W", "X", "Y", "Z", "a", "b", "c", "d", "e", "f", "g", "h", "i",
       "j", "k", "m", "n", "o", "p", "q", "r", "s", "t", "u", "v", "w", "x",
       "y", "z" >>

Text(ones, digits) == [ones |-> ones, digits |-> digits]

RECURSIVE Base58Digits(_)
Base58Digits(n) ==
    IF n = 0 THEN <<>>
    ELSE Append(Base58Digits(n \div Len(Alphabet)), Alphabet[(n % Len(Alphabet)) + 1])

\* bs58::encode(bytes).into_string(): a "1" per leading zero byte, then the
\* number in base 58
Base58Encode(bytes) ==
    Text(bytes.len - ByteCount(bytes.val), Base58Digits(bytes.val))

DigitOf(c) == CHOOSE i \in 1..Len(Alphabet) : Alphabet[i] = c

RECURSIVE Base58Value(_)
Base58Value(s) ==
    IF s = <<>> THEN 0
    ELSE Len(Alphabet) * Base58Value(SubSeq(s, 1, Len(s) - 1)) + (DigitOf(s[Len(s)]) - 1)

\* bs58::decode(s).into_vec(): an error for a character outside the
\* alphabet, else a zero byte per leading "1", then the number's bytes
Base58Decode(s) ==
    IF \E i \in 1..Len(s.digits) : \A j \in 1..Len(Alphabet) : Alphabet[j] # s.digits[i]
    THEN [ok |-> FALSE, bytes |-> Bytes(0, 0)]
    ELSE LET v == Base58Value(s.digits) IN
         [ok |-> TRUE, bytes |-> Bytes(s.ones + ByteCount(v), v)]

\* Identity::public_id
PublicIdTable == [p \in Parties |-> Base58Encode(PublicKeyOf(p))]
public_id(p) == PublicIdTable[p]

\* format!("/deaddrop/inbox/{}", id)
InboxTopic(id) == <<"/deaddrop/inbox/", id>>

(***************************************************************************)
(* Wire format.  A JSON text is modelled by the object it denotes; bytes   *)
(* that are not UTF-8, and texts that are no envelope, are kept apart.     *)
(***************************************************************************)
\* GhostMessage { id, from, content, timestamp }
GhostMessage(id, from, content, timestamp) ==
    [id |-> id, from |-> from, content |-> content, timestamp |-> timestamp]

\* MessageReceipt { message_id, from, timestamp }
MessageReceipt(message_id, from, timestamp) ==
    [message_id |-> message_id, from |-> from, timestamp |-> timestamp]

\* serde_json::to_string(&P2PMessage::Message(m)) with #[serde(tag = "type")]
MessageJson(m) ==
    [utf8 |-> TRUE,
     json |-> [type |-> "message", id |-> m.id, from |-> m.from,
               content |-> m.content, timestamp |-> m.timestamp]]

\* serde_json::to_string(&P2PMessage::Receipt(r))
ReceiptJson(r) ==
    [utf8 |-> TRUE,
     json |-> [type |-> "receipt", message_id |-> r.message_id, from |-> r.from,
               timestamp |-> r.timestamp]]

\* String::from_utf8(decrypted)? then serde_json::from_str::<P2PMessage>
ParseP2PMessage(plain) ==
    IF ~plain.utf8 THEN [ok |-> FALSE]
    ELSE IF plain.json.type = "message"
    THEN [ok |-> TRUE, variant |-> "Message",
          value |-> GhostMessage(plain.json.id, plain.json.from,
                                 plain.json.content, plain.json.timestamp)]
    ELSE IF plain.json.type = "receipt"
    THEN [ok |-> TRUE, variant |-> "Receipt",
          value |-> MessageReceipt(plain.json.message_id, plain.json.from,
                                   plain.json.timestamp)]
    ELSE [ok |-> FALSE]

\* SHA-256("deaddrop-message-key" || shared_secret)
MessageKey(secret) == <<"deaddrop-message-key", secret>>

\* encrypt_message: nonce || ChaCha20-Poly1305 ciphertext (never empty: it
\* ends with the tag)
encrypt_message(secret, plaintext, nonce) ==
    [kind |-> "aead", len |-> NONCE_SIZE + 1, nonce |-> nonce,
     key |-> MessageKey(secret), plain |-> plaintext]

\* bytes that are no ciphertext of any key
RawBytes(n) == [kind |-> "raw", len |-> n]

\* decrypt_message
decrypt_message(secret, data) ==
    IF data.len < NONCE_SIZE THEN [ok |-> FALSE]
    ELSE IF data.kind = "aead" /\ data.key = MessageKey(secret)
    THEN [ok |-> TRUE, plain |-> data.plain]
    ELSE [ok |-> FALSE]

\* sender_public_key (32 bytes) || encrypted_payload; a frame of fewer than
\* 32 bytes is all prefix
Frame(prefix, body) == [prefix |-> prefix, body |-> body]
DataLen(data) == data.prefix.len + data.body.len

\* the frame an identity builds for a peer key
SealedFrame(p, peer_public, plaintext, nonce) ==
    Frame(PublicKeyOf(p), encrypt_message(shared_secret(p, peer_public), plaintext, nonce))

(***************************************************************************)
(* State.                                                                  *)
(***************************************************************************)
VARIABLES
    p2p_sender,     \* AppState.p2p_sender of each peer: None or "Sender"
    pc,             \* where each peer's actor is: "none", "init", "select", "drain", "exited"
    chan,           \* the command channel of each actor
    waiting,        \* host calls suspended in sender.send(..).await
    pending_acks,   \* PendingAcks.pending: entries [message_id, target, timestamp], one per message_id
    receipt_queue,  \* ReceiptQueue of each actor
    net,            \* frames published and not yet delivered: [topic, data]
    events,         \* window.emit calls of each peer (a bag)
    published,      \* every gossipsub publish call: [by, topic, data, ok]
    now,            \* the clock, in seconds
    loopStart,      \* when the actor's current select! (and its sleep) began
    nextId,         \* the next message id
    injected,       \* the frames the outsider has published so far
    dequeued,       \* message ids of the SendMessage commands each actor has taken
    returned,       \* send_ghost_message calls that returned Ok(message_id)
    result,         \* Ok or Err of the last handler each actor ran
    identity_file,  \* identity.enc in the data directory of one host: Absent or Some(blob)
    identity,       \* AppState.identity of that host: Absent or Some(Identity)
    saved,          \* what save_to_disk last wrote: Absent or Some([password, content, identity])
    generated,      \* how many identities Identity::generate has made
    id_result,      \* the last call of init_identity or load_or_generate and its outcome
    ipfs,           \* what the IPFS daemon returns for each cid it gave out
    drops,          \* the dead drops created: [file, threshold, total_shards, key, cid, shards, stream]
    output_file,    \* the file at the output path of retrieve_drop: Absent or Some(bytes)
    drop_result,    \* the last call of create_drop or retrieve_drop and its outcome
    sealed,         \* bytes in hand that encrypt_file made, as they are now: Absent or Some(bytes)
    opened,         \* the last call of decrypt_file: [n, key, input, result]
    actors,         \* every task init_p2p_actor has spawned on one host, oldest first
    slot,           \* the task whose Sender that host's AppState.p2p_sender holds, 0 for None
    arrived         \* how many messages have been published on that host's inbox topic

\* the variables of the messaging part and those of the other parts
p2pVars == << p2p_sender, pc, chan, waiting, pending_acks, receipt_queue, net, events,
              published, now, loopStart, nextId, injected, dequeued, returned, result >>
identityVars == << identity_file, identity, saved, generated, id_result >>
dropVars == << ipfs, drops, output_file, drop_result >>
sealVars == << sealed, opened >>
taskVars == << actors, slot, arrived >>
storageVars == << identityVars, dropVars, sealVars, taskVars >>

vars == << p2p_sender, pc, chan, waiting, pending_acks, receipt_queue, net, events,
           published, now, loopStart, nextId, injected, dequeued, returned, result,
           identity_file, identity, saved, generated, id_result,
           ipfs, drops, output_file, drop_result, sealed, opened,
           actors, slot, arrived >>

\* Option: None and Some(v)
Absent == [some |-> FALSE]
Some(v) == [some |-> TRUE, value |-> v]

NoCall == [n |-> 0, op |-> "none", password |-> "", kind |-> "none",
           public_key |-> Absent, public_id |-> Absent]

Init ==
    /\ p2p_sender = [p \in Peers |-> None]
    /\ pc = [p \in Peers |-> "none"]
    /\ chan = [p \in Peers |-> <<>>]
    /\ waiting = [p \in Peers |-> <<>>]
    /\ pending_acks = [p \in Peers |-> {}]
    /\ receipt_queue = [p \in Peers |-> <<>>]
    /\ net = {}
    /\ events = [p \in Peers |-> EmptyBag]
    /\ published = {}
    /\ now = 0
    /\ loopStart = [p \in Peers |-> 0]
    /\ nextId = 1
    /\ injected = {}
    /\ dequeued = [p \in Peers |-> {}]
    /\ returned = {}
    /\ result = [p \in Peers |-> "Ok"]
    /\ identity_file = Absent
    /\ identity = Absent
    /\ saved = Absent
    /\ generated = 0
    /\ id_result = NoCall
    /\ ipfs = << >>
    /\ drops = << >>
    /\ output_file = Absent
    /\ drop_result = [n |-> 0, op |-> "none", kind |-> "none", err |-> "", steps |-> << >>]
    /\ sealed = Absent
    /\ opened = [n |-> 0]
    /\ actors = << >>
    /\ slot = 0
    /\ arrived = 0

(***************************************************************************)
(* PendingAcks: a map, kept as the set of its entries.                     *)
(***************************************************************************)
PendingIds(pending) == {e.message_id : e \in pending}

\* PendingAcks::add: HashMap::insert replaces an entry of the same key
PendingAdd(pending, message_id, target, timestamp) ==
    {e \in pending : e.message_id # message_id}
        \cup {[message_id |-> message_id, target |-> target, timestamp |-> timestamp]}

\* PendingAcks::remove: the map without the key
PendingRemove(pending, message_id) == {e \in pending : e.message_id # message_id}

\* a - b on u64 without overflow checks: the difference, or 2^64 less the
\* shortfall when b is the greater (wrapped); every value of the model is
\* below 2^31
WrappingSub(a, b) ==
    IF a >= b THEN [wrapped |-> FALSE, value |-> a - b]
    ELSE [wrapped |-> TRUE, value |-> b - a]

\* d < bound for a difference d of WrappingSub: 2^64 - value is above every
\* bound below 2^31
U64Less(d, bound) == ~d.wrapped /\ d.value < bound

\* A faulty variant of cleanup_old, which C28 must tell from it: an entry
\* whose age is max_age_secs is retained.
cleanup_older(pending, clock, max_age_secs) ==
    {e \in pending : clock - e.timestamp <= max_age_secs}

\* PendingAcks::cleanup_old: retain(now - timestamp < max_age_secs), on u64
cleanup_old(pending, clock, max_age_secs) ==
    {e \in pending : U64Less(WrappingSub(clock, e.timestamp), max_age_secs)}

\* now - *timestamp overflows for some entry: with overflow checks (a debug
\* build) the subtraction panics
SubtractOverflows(pending, clock) == \E e \in pending : e.timestamp > clock

(***************************************************************************)
(* Host commands (main.rs).                                                *)
(***************************************************************************)
SendMessage(target_public_key, content, message_id) ==
    [type |-> "SendMessage", target_public_key |-> target_public_key,
     content |-> content, message_id |-> message_id]
Shutdown == [type |-> "Shutdown"]

\* what a send_ghost_message call that returned Ok(message_id) was given
Returned(p, cmd) ==
    [by |-> p, message_id |-> cmd.message_id, target |-> cmd.target_public_key,
     content |-> cmd.content]

ReturnedBy(p, cmds) == {Returned(p, c) : c \in {d \in cmds : d.type = "SendMessage"}}

\* the receiver is gone once the actor's task has ended
ChannelClosed(p) == pc[p] = "exited"

\* mpsc::Sender::send(cmd).await of a host call of peer p: an error when the
\* receiver is gone, the command queued when there is room (and no earlier
\* call is waiting for room), otherwise the call waits
SenderSend(p, cmd) ==
    IF ChannelClosed(p)
    THEN UNCHANGED << chan, waiting, returned >>
    ELSE IF Len(chan[p]) < CHANNEL_CAPACITY /\ waiting[p] = <<>>
    THEN /\ chan' = [chan EXCEPT ![p] = Append(@, cmd)]
         /\ returned' = returned \cup ReturnedBy(p, {cmd})
         /\ UNCHANGED waiting
    ELSE /\ waiting' = [waiting EXCEPT ![p] = Append(@, cmd)]
         /\ UNCHANGED << chan, returned >>

\* start_ghost_mode: init_p2p_actor makes the channel, spawns the actor's task
\* and hands back the sender, which goes into the slot
start_ghost_mode(p) ==
    /\ pc[p] = "none"
    /\ pc' = [pc EXCEPT ![p] = "init"]
    /\ p2p_sender' = [p2p_sender EXCEPT ![p] = "Sender"]
    /\ UNCHANGED << chan, waiting, pending_acks, receipt_queue, net, events, published,
                    now, loopStart, nextId, injected, dequeued, returned, result >>
    /\ UNCHANGED storageVars

\* send_ghost_message (main.rs): a fresh uuid, then sender.send(SendMessage)
host_send_ghost_message(p, target_public_key, content) ==
    /\ p2p_sender[p] # None
    /\ nextId <= MaxMsgs
    /\ Len(waiting[p]) < MaxWaiting
    /\ nextId' = nextId + 1
    /\ SenderSend(p, SendMessage(target_public_key, content, nextId))
    /\ UNCHANGED << p2p_sender, pc, pending_acks, receipt_queue, net, events, published,
                    now, loopStart, injected, dequeued, result >>
    /\ UNCHANGED storageVars

\* stop_ghost_mode: sender.send(Shutdown) when the slot holds a sender
stop_ghost_mode(p) ==
    /\ p2p_sender[p] # None
    /\ ~ChannelClosed(p)
    /\ Len(waiting[p]) < MaxWaiting
    /\ SenderSend(p, Shutdown)
    /\ UNCHANGED << p2p_sender, pc, pending_acks, receipt_queue, net, events, published,
                    now, loopStart, nextId, injected, dequeued, result >>
    /\ UNCHANGED storageVars

\* a waiting send completes once the channel has room
SendCompletes(p) ==
    /\ waiting[p] # <<>>
    /\ ~ChannelClosed(p)
    /\ Len(chan[p]) < CHANNEL_CAPACITY
    /\ chan' = [chan EXCEPT ![p] = Append(@, Head(waiting[p]))]
    /\ waiting' = [waiting EXCEPT ![p] = Tail(@)]
    /\ returned' = returned \cup ReturnedBy(p, {Head(waiting[p])})
    /\ UNCHANGED << p2p_sender, pc, pending_acks, receipt_queue, net, events, published,
                    now, loopStart, nextId, injected, dequeued, result >>
    /\ UNCHANGED storageVars

(***************************************************************************)
(* The actor (p2p.rs).  Operators compute what a function of the source    *)
(* does to the actor's state; the actions below apply them.                *)
(***************************************************************************)
GhostMsgEvent(m) == [name |-> "ghost_msg", payload |-> m]
MsgDeliveredEvent(message_id, target, delivered_at) ==
    [name |-> "msg_delivered",
     payload |-> [message_id |-> message_id, target |-> target, delivered_at |-> delivered_at]]
GhostErrorEvent(e) == [name |-> "ghost_error", payload |-> [text |-> <<"Send failed: ", e>>]]

PublishCall(p, topic, data, ok) == [by |-> p, topic |-> topic, data |-> data, ok |-> ok]

\* what gossipsub carries of a set of publish calls: the accepted ones
Carried(calls) == {[topic |-> c.topic, data |-> c.data] : c \in {d \in calls : d.ok}}

\* send_ghost_message (p2p.rs): pubOk is what gossipsub.publish answers
send_ghost_message(p, target_public_key_b58, content, message_id, clock, pubOk, nonce) ==
    LET decoded == Base58Decode(target_public_key_b58) IN
    IF ~decoded.ok
    THEN [ok |-> FALSE, err |-> "Invalid base58 public key", calls |-> {}]
    ELSE IF decoded.bytes.len # PUBKEY_LEN
    THEN [ok |-> FALSE, err |-> "Invalid public key length", calls |-> {}]
    ELSE LET ghost_msg == GhostMessage(message_id, public_id(p), content, clock)
             full_message == SealedFrame(p, decoded.bytes, MessageJson(ghost_msg), nonce)
             topic == InboxTopic(target_public_key_b58)
         IN  [ok |-> pubOk, err |-> "Publish failed",
              calls |-> {PublishCall(p, topic, full_message, pubOk)}]

\* A faulty variant of send_receipt, which C1 must tell from it: the receipt
\* goes to the receiver's own inbox topic and never reaches the sender.
send_receipt_own_inbox(p, sender_public_key, message_id, sender_id, clock, pubOk, nonce) ==
    LET receipt == MessageReceipt(message_id, public_id(p), clock)
        full_message == SealedFrame(p, sender_public_key, ReceiptJson(receipt), nonce)
        topic == InboxTopic(public_id(p))
    IN  [ok |-> pubOk, err |-> "Receipt publish failed",
         calls |-> {PublishCall(p, topic, full_message, pubOk)}]

\* send_receipt
send_receipt(p, sender_public_key, message_id, sender_id, clock, pubOk, nonce) ==
    LET receipt == MessageReceipt(message_id, public_id(p), clock)
        full_message == SealedFrame(p, sender_public_key, ReceiptJson(receipt), nonce)
        topic == InboxTopic(sender_id)
    IN  [ok |-> pubOk, err |-> "Receipt publish failed",
         calls |-> {PublishCall(p, topic, full_message, pubOk)}]

\* the frame as the handler reads it: too short, not decrypted, not parsed,
\* or the envelope it carries
Decode(p, data) ==
    IF DataLen(data) < PUBKEY_LEN THEN [ok |-> FALSE]
    ELSE LET decrypted == decrypt_message(shared_secret(p, data.prefix), data.body) IN
         IF ~decrypted.ok THEN [ok |-> FALSE] ELSE ParseP2PMessage(decrypted.plain)

\* the branch of handle_incoming_p2p_message for a Message
HandleMessage(data, ghost_msg, pending, queue) ==
    [ok |-> TRUE, pending |-> pending,
     queue |-> Append(queue, << data.prefix, ghost_msg.id, ghost_msg.from >>),
     emits |-> {GhostMsgEvent(ghost_msg)}]

\* Faulty variants of the Receipt branch, which C4 and C5 must tell from it:
\* one that does not look the id up, one that leaves the entry in place.
HandleReceiptUnchecked(receipt, pending, queue) ==
    [ok |-> TRUE, pending |-> PendingRemove(pending, receipt.message_id),
     queue |-> queue,
     emits |-> {MsgDeliveredEvent(receipt.message_id, receipt.from, receipt.timestamp)}]

HandleReceiptKeepsEntry(receipt, pending, queue) ==
    IF receipt.message_id \in PendingIds(pending)
    THEN LET entry == CHOOSE e \in pending : e.message_id = receipt.message_id IN
         [ok |-> TRUE, pending |-> pending, queue |-> queue,
          emits |-> {MsgDeliveredEvent(receipt.message_id, entry.target, receipt.timestamp)}]
    ELSE [ok |-> TRUE, pending |-> pending, queue |-> queue, emits |-> {}]

\* the branch of handle_incoming_p2p_message for a Receipt
HandleReceipt(receipt, pending, queue) ==
    IF receipt.message_id \in PendingIds(pending)
    THEN LET entry == CHOOSE e \in pending : e.message_id = receipt.message_id IN
         [ok |-> TRUE, pending |-> PendingRemove(pending, receipt.message_id),
          queue |-> queue,
          emits |-> {MsgDeliveredEvent(receipt.message_id, entry.target, receipt.timestamp)}]
    ELSE [ok |-> TRUE, pending |-> pending, queue |-> queue, emits |-> {}]

\* Faulty variants of the handler, which C7 and C9 must tell from it: one
\* that acknowledges receipts too, one that reports a dropped frame to the
\* host.
HandleAcksReceipts(p, data, pending, queue) ==
    LET p2p_message == Decode(p, data) IN
    IF ~p2p_message.ok
    THEN [ok |-> FALSE, pending |-> pending, queue |-> queue, emits |-> {}]
    ELSE IF p2p_message.variant = "Message"
    THEN HandleMessage(data, p2p_message.value, pending, queue)
    ELSE HandleReceipt(p2p_message.value, pending,
             Append(queue, << data.prefix, p2p_message.value.message_id,
                              p2p_message.value.from >>))

HandleReportsDropped(p, data, pending, queue) ==
    LET p2p_message == Decode(p, data) IN
    IF ~p2p_message.ok
    THEN [ok |-> FALSE, pending |-> pending, queue |-> queue,
          emits |-> {GhostErrorEvent("Invalid message")}]
    ELSE IF p2p_message.variant = "Message"
    THEN HandleMessage(data, p2p_message.value, pending, queue)
    ELSE HandleReceipt(p2p_message.value, pending, queue)

\* handle_incoming_p2p_message
handle_incoming_p2p_message(p, data, pending, queue) ==
    LET p2p_message == Decode(p, data) IN
    IF ~p2p_message.ok
    THEN [ok |-> FALSE, pending |-> pending, queue |-> queue, emits |-> {}]
    ELSE IF p2p_message.variant = "Message"
    THEN HandleMessage(data, p2p_message.value, pending, queue)
    ELSE HandleReceipt(p2p_message.value, pending, queue)

Emit(p, emits) == [events EXCEPT ![p] = @ (+) SetToBag(emits)]
ResultOf(ok) == IF ok THEN "Ok" ELSE "Err"

\* the spawned task reaches the event loop, or run_p2p_actor fails while it
\* builds the swarm and the task ends
ActorInit(p, ok) ==
    /\ pc[p] = "init"
    /\ IF ok
       THEN /\ pc' = [pc EXCEPT ![p] = "select"]
            /\ loopStart' = [loopStart EXCEPT ![p] = now]
            /\ UNCHANGED << chan, waiting >>
       ELSE /\ pc' = [pc EXCEPT ![p] = "exited"]
            /\ chan' = [chan EXCEPT ![p] = <<>>]
            /\ waiting' = [waiting EXCEPT ![p] = <<>>]
            /\ UNCHANGED loopStart
    /\ UNCHANGED << p2p_sender, pending_acks, receipt_queue, net, events, published, now,
                    nextId, injected, dequeued, returned, result >>
    /\ UNCHANGED storageVars

\* the arm Some(cmd) = rx.recv() for SendMessage
ActorSendMessage(p, pubOk, nonce) ==
    /\ pc[p] = "select"
    /\ chan[p] # <<>>
    /\ Head(chan[p]).type = "SendMessage"
    /\ LET cmd == Head(chan[p])
           sent == send_ghost_message(p, cmd.target_public_key, cmd.content,
                                      cmd.message_id, now, pubOk, nonce)
       IN  /\ pending_acks' = [pending_acks EXCEPT ![p] =
                   PendingAdd(@, cmd.message_id, cmd.target_public_key, now)]
           /\ published' = published \cup sent.calls
           /\ net' = net \cup Carried(sent.calls)
           /\ events' = IF sent.ok THEN events ELSE Emit(p, {GhostErrorEvent(sent.err)})
           /\ result' = [result EXCEPT ![p] = ResultOf(sent.ok)]
           /\ dequeued' = [dequeued EXCEPT ![p] = @ \cup {cmd.message_id}]
    /\ chan' = [chan EXCEPT ![p] = Tail(@)]
    /\ loopStart' = [loopStart EXCEPT ![p] = now]
    /\ UNCHANGED << p2p_sender, pc, waiting, receipt_queue, now, nextId, injected, returned >>
    /\ UNCHANGED storageVars

\* A faulty variant of the Shutdown arm, which C11 must tell from it: the
\* command is taken and the loop goes on.
ActorShutdownIgnored(p) ==
    /\ pc[p] = "select"
    /\ chan[p] # <<>>
    /\ Head(chan[p]).type = "Shutdown"
    /\ chan' = [chan EXCEPT ![p] = Tail(@)]
    /\ UNCHANGED << p2p_sender, pc, waiting, pending_acks, receipt_queue, net, events,
                    published, now, loopStart, nextId, injected, dequeued, returned, result >>
    /\ UNCHANGED storageVars

\* the arm Some(cmd) = rx.recv() for Shutdown: break, the task ends and drops
\* the receiver, the pending acks and the queue
ActorShutdown(p) ==
    /\ pc[p] = "select"
    /\ chan[p] # <<>>
    /\ Head(chan[p]).type = "Shutdown"
    /\ pc' = [pc EXCEPT ![p] = "exited"]
    /\ chan' = [chan EXCEPT ![p] = <<>>]
    /\ waiting' = [waiting EXCEPT ![p] = <<>>]
    /\ pending_acks' = [pending_acks EXCEPT ![p] = {}]
    /\ receipt_queue' = [receipt_queue EXCEPT ![p] = <<>>]
    /\ UNCHANGED << p2p_sender, net, events, published, now, loopStart, nextId, injected,
                    dequeued, returned, result >>
    /\ UNCHANGED storageVars

\* the arm event = swarm.select_next_some() for a gossipsub message on the
\* actor's inbox topic: handle_swarm_event, before the queue is drained
SwarmMessage(p, f) ==
    /\ pc[p] = "select"
    /\ f \in net
    /\ f.topic = InboxTopic(public_id(p))
    /\ LET h == handle_incoming_p2p_message(p, f.data, pending_acks[p], receipt_queue[p])
       IN  /\ pending_acks' = [pending_acks EXCEPT ![p] = h.pending]
           /\ receipt_queue' = [receipt_queue EXCEPT ![p] = h.queue]
           /\ events' = Emit(p, h.emits)
           /\ result' = [result EXCEPT ![p] = ResultOf(h.ok)]
    /\ net' = net \ {f}
    /\ pc' = [pc EXCEPT ![p] = "drain"]
    /\ UNCHANGED << p2p_sender, chan, waiting, published, now, loopStart, nextId, injected,
                    dequeued, returned >>
    /\ UNCHANGED storageVars

\* the same arm for any other swarm event (mDNS, identify, ping, dcutr, a new
\* listen address, a connection): handle_swarm_event only logs
SwarmOther(p) ==
    /\ pc[p] = "select"
    /\ pc' = [pc EXCEPT ![p] = "drain"]
    /\ result' = [result EXCEPT ![p] = "Ok"]
    /\ UNCHANGED << p2p_sender, chan, waiting, pending_acks, receipt_queue, net, events,
                    published, now, loopStart, nextId, injected, dequeued, returned >>
    /\ UNCHANGED storageVars

\* one turn of while let Some(..) = receipt_queue.pop(): Vec::pop takes the
\* last entry, send_receipt publishes it
DrainPop(p, pubOk, nonce) ==
    /\ pc[p] = "drain"
    /\ receipt_queue[p] # <<>>
    /\ LET q == receipt_queue[p]
           entry == q[Len(q)]
           sent == send_receipt(p, entry[1], entry[2], entry[3], now, pubOk, nonce)
       IN  /\ receipt_queue' = [receipt_queue EXCEPT ![p] = SubSeq(q, 1, Len(q) - 1)]
           /\ published' = published \cup sent.calls
           /\ net' = net \cup Carried(sent.calls)
           /\ result' = [result EXCEPT ![p] = ResultOf(sent.ok)]
    /\ UNCHANGED << p2p_sender, pc, chan, waiting, pending_acks, events, now, loopStart,
                    nextId, injected, dequeued, returned >>
    /\ UNCHANGED storageVars

\* A faulty variant of the end of the arm, which C8 must tell from it: the
\* loop goes on with entries left in the queue.
DrainDoneEarly(p) ==
    /\ pc[p] = "drain"
    /\ pc' = [pc EXCEPT ![p] = "select"]
    /\ loopStart' = [loopStart EXCEPT ![p] = now]
    /\ UNCHANGED << p2p_sender, chan, waiting, pending_acks, receipt_queue, net, events,
                    published, now, nextId, injected, dequeued, returned, result >>
    /\ UNCHANGED storageVars

\* pop returns None: the arm ends and the loop starts its next select!
DrainDone(p) ==
    /\ pc[p] = "drain"
    /\ receipt_queue[p] = <<>>
    /\ pc' = [pc EXCEPT ![p] = "select"]
    /\ loopStart' = [loopStart EXCEPT ![p] = now]
    /\ UNCHANGED << p2p_sender, chan, waiting, pending_acks, receipt_queue, net, events,
                    published, now, nextId, injected, dequeued, returned, result >>
    /\ UNCHANGED storageVars

\* the arm _ = tokio::time::sleep(60 s): the sleep is made anew by every
\* select!, so it completes 60 s after the current iteration began
\* cleanup_old is where an overflowing subtraction either wraps (a release
\* build) or panics (overflow checks on): the panic unwinds the task, which
\* drops the receiver, the pending acks and the queue
Sweep(p) ==
    /\ pc[p] = "select"
    /\ now >= loopStart[p] + SWEEP_PERIOD
    /\ \E overflow_checks \in BOOLEAN :
          IF overflow_checks /\ SubtractOverflows(pending_acks[p], now)
          THEN /\ pc' = [pc EXCEPT ![p] = "exited"]
               /\ chan' = [chan EXCEPT ![p] = <<>>]
               /\ waiting' = [waiting EXCEPT ![p] = <<>>]
               /\ pending_acks' = [pending_acks EXCEPT ![p] = {}]
               /\ receipt_queue' = [receipt_queue EXCEPT ![p] = <<>>]
               /\ UNCHANGED loopStart
          ELSE /\ pending_acks' = [pending_acks EXCEPT ![p] = cleanup_old(@, now, ACK_TTL)]
               /\ loopStart' = [loopStart EXCEPT ![p] = now]
               /\ UNCHANGED << pc, chan, waiting, receipt_queue >>
    /\ UNCHANGED << p2p_sender, net, events, published,
                    now, nextId, injected, dequeued, returned, result >>
    /\ UNCHANGED storageVars

(***************************************************************************)
(* The environment: the clock and the outsider.                            *)
(***************************************************************************)
\* Time passes, half a sweep period at a time.  A task that can run does so
\* first: an actor that is starting or is in the middle of an iteration
\* finishes it, an actor in select! with a command in its channel takes it,
\* and the sleep of select! wakes the actor no later than its deadline, so the
\* clock does not move past the deadline before an arm has run.  Frames in
\* flight may take any time.
Tick ==
    /\ now + TickStep <= MaxTime
    /\ \A p \in Peers :
          /\ pc[p] \notin {"init", "drain"}
          /\ pc[p] = "select" =>
                /\ chan[p] = <<>>
                /\ now + TickStep <= loopStart[p] + SWEEP_PERIOD
    /\ now' = now + TickStep
    /\ UNCHANGED << p2p_sender, pc, chan, waiting, pending_acks, receipt_queue, net,
                    events, published, loopStart, nextId, injected, dequeued, returned,
                    result >>
    /\ UNCHANGED storageVars

\* the strings a host passes as target_public_key: the public id of another
\* peer, a string with a character outside the base58 alphabet, and base58
\* of fewer than 32 bytes
TargetsTable == [p \in Peers |-> {public_id(q) : q \in Peers \ {p}} \cup { Text(0, <<"0">>), Text(0, <<"2">>) }]
Targets(p) == TargetsTable[p]

\* the peers whose host sends messages
Senders == {"A"}

\* the frames the outsider can build for peer p's inbox: too short, a key
\* and too few bytes for a nonce, a key and bytes that are no ciphertext, a
\* ciphertext under a key the named sender does not share with p, and well
\* sealed frames that carry bytes that are not UTF-8, a text that is no
\* envelope, a Message (naming itself, or another peer, in from) and a
\* Receipt for any message id
OutsiderFramesFor(p) ==
    LET seal(plain) == SealedFrame(Outsider, PublicKeyOf(p), plain, 1) IN
    { Frame(Bytes(PUBKEY_LEN - 1, 0), RawBytes(0)),
      Frame(PublicKeyOf(Outsider), RawBytes(0)),
      Frame(PublicKeyOf(Outsider), RawBytes(NONCE_SIZE + PUBKEY_LEN)),
      Frame(PublicKeyOf(CHOOSE q \in Peers : q # p),
            encrypt_message(shared_secret(Outsider, PublicKeyOf(p)),
                            ReceiptJson(MessageReceipt(1, public_id(Outsider), 0)), 1)),
      seal([utf8 |-> FALSE, json |-> [type |-> "none"]]),
      seal([utf8 |-> TRUE, json |-> [type |-> "other"]]) }
    \cup { seal(MessageJson(GhostMessage(1, public_id(q), "evil", 0))) :
              q \in Parties \ {p} }
    \cup { seal(ReceiptJson(MessageReceipt(id, public_id(Outsider), 0))) : id \in Ids }

OutsiderFramesTable == [p \in Peers |-> OutsiderFramesFor(p)]
OutsiderFrames(p) == OutsiderFramesTable[p]

\* the outsider publishes a frame on p's inbox topic
Inject(p, data) ==
    /\ Cardinality(injected) < MaxInject
    /\ injected' = injected \cup {[topic |-> InboxTopic(public_id(p)), data |-> data]}
    /\ net' = net \cup {[topic |-> InboxTopic(public_id(p)), data |-> data]}
    /\ UNCHANGED << p2p_sender, pc, chan, waiting, pending_acks, receipt_queue, events,
                    published, now, loopStart, nextId, dequeued, returned, result >>
    /\ UNCHANGED storageVars

(***************************************************************************)
(* Spec: both peers, the outsider, no passage of time.                     *)
(***************************************************************************)
Next ==
    \/ \E p \in Peers : start_ghost_mode(p)
    \/ \E p \in Peers, ok \in BOOLEAN : ActorInit(p, ok)
    \/ \E p \in Senders : \E t \in Targets(p), c \in Contents :
          Len(chan[p]) < MaxQueued /\ host_send_ghost_message(p, t, c)
    \/ \E p \in Peers : Len(chan[p]) < MaxQueued /\ stop_ghost_mode(p)
    \/ \E p \in Peers, pubOk \in BOOLEAN, nonce \in Nonces : ActorSendMessage(p, pubOk, nonce)
    \/ \E p \in Peers : ActorShutdown(p)
    \/ \E p \in Peers : \E f \in net : SwarmMessage(p, f)
    \/ \E p \in Peers, pubOk \in BOOLEAN, nonce \in Nonces : DrainPop(p, pubOk, nonce)
    \/ \E p \in Peers : DrainDone(p)
    \/ \E p \in Peers : \E data \in OutsiderFrames(p) : Inject(p, data)

Spec == Init /\ [][Next]_vars

(***************************************************************************)
(* What the claims speak of.                                               *)
(***************************************************************************)
Running(p) == pc[p] \in {"select", "drain"}

EventsNamed(p, name) == {e \in BagToSet(events[p]) : e.name = name}

\* the message ids for which peer p's window got msg_delivered
DeliveredIds(p) == {e.payload.message_id : e \in EventsNamed(p, "msg_delivered")}

\* the number of emit calls of peer p with the given name
RECURSIVE BagSum(_, _)
BagSum(S, B) ==
    IF S = {} THEN 0
    ELSE LET e == CHOOSE x \in S : TRUE IN CopiesIn(e, B) + BagSum(S \ {e}, B)
EmitCount(p, name) == BagSum(EventsNamed(p, name), events[p])

\* how often msg_delivered was emitted to p for message id m
DeliveredCount(p, m) ==
    BagSum({e \in EventsNamed(p, "msg_delivered") : e.payload.message_id = m}, events[p])

\* the publish calls of peer p that carry an envelope of the given type
PublishCalls(p, type) ==
    {c \in published : c.by = p /\ c.data.body.plain.json.type = type}

\* this step, actor p takes frame f from its inbox topic and handles it
HandlesFrame(p, f) ==
    /\ pc[p] = "select"
    /\ pc'[p] = "drain"
    /\ f \in net
    /\ f \notin net'
    /\ f.topic = InboxTopic(public_id(p))

\* the state of actor p that a handler may touch is left as it was
ActorStateKept(p) ==
    /\ events'[p] = events[p]
    /\ pending_acks'[p] = pending_acks[p]
    /\ receipt_queue'[p] = receipt_queue[p]
    /\ published' = published

(***************************************************************************)
(* C2.  After a SendMessage command is handled, PendingReceipts holds its  *)
(* message id only if the publish of that message returned success: a      *)
(* failed publish (an undecodable or wrong-length target key included)     *)
(* records no entry.                                                       *)
(***************************************************************************)
C2_PendingOnlyIfPublished ==
    \A p \in Peers : \A e \in pending_acks[p] :
       \E c \in PublishCalls(p, "message") :
          c.ok /\ c.data.body.plain.json.id = e.message_id

(***************************************************************************)
(* C4.  msg_delivered for message id m is emitted only after the actor has *)
(* taken the SendMessage command that carries m from its channel.          *)
(***************************************************************************)
C4_DeliveredAfterSend == \A p \in Peers : DeliveredIds(p) \subseteq dequeued[p]

\* a delivery confirmation has been emitted
C4_Witness == \E p \in Peers : DeliveredIds(p) # {}

(***************************************************************************)
(* C5.  A receipt whose message id is not in PendingReceipts is dropped:   *)
(* no host event, no change of the actor's state; so msg_delivered is      *)
(* emitted at most once for a message id, however many receipts for it     *)
(* arrive.                                                                 *)
(***************************************************************************)
UnknownReceipt(p, f) ==
    LET d == Decode(p, f.data) IN
    /\ d.ok
    /\ d.variant = "Receipt"
    /\ d.value.message_id \notin PendingIds(pending_acks[p])

C5_UnknownReceiptDropped ==
    /\ [](\A p \in Peers : \A m \in Ids : DeliveredCount(p, m) <= 1)
    /\ [][\A p \in Peers : \A f \in net :
             HandlesFrame(p, f) /\ UnknownReceipt(p, f) => ActorStateKept(p)]_vars

\* the receipts for message id m on p's inbox topic: those the peers
\* published and those the outsider made
ReceiptFrames(p, m) ==
    {f \in Carried(published) \cup injected :
        /\ f.topic = InboxTopic(public_id(p))
        /\ Decode(p, f.data).ok
        /\ Decode(p, f.data).variant = "Receipt"
        /\ Decode(p, f.data).value.message_id = m}

\* two receipts for one message id have reached the actor, one event came
C5_Witness ==
    \E p \in Peers : \E m \in Ids :
       /\ Cardinality(ReceiptFrames(p, m)) >= 2
       /\ ReceiptFrames(p, m) \cap net = {}
       /\ pc[p] = "select"
       /\ DeliveredCount(p, m) = 1

(***************************************************************************)
(* C6.  The receipt for an inbound Message is published on the inbox topic *)
(* of the sender, "/deaddrop/inbox/" + base58(the sender public key that   *)
(* prefixes the frame), whatever the from field of the payload says.  The  *)
(* receipt is sealed for that sender key, which tells it.                  *)
(***************************************************************************)
C6_ReceiptOnSenderInbox ==
    \A p \in Peers : \A c \in PublishCalls(p, "receipt") :
       \E q \in Parties :
          /\ c.data.body.key = MessageKey(shared_secret(p, PublicKeyOf(q)))
          /\ c.topic = InboxTopic(Base58Encode(PublicKeyOf(q)))

(***************************************************************************)
(* C7.  Receipts are never acknowledged.  Handling an inbound Receipt      *)
(* enqueues and publishes nothing; the receipt queue grows only when an    *)
(* inbound Message is handled, by exactly one entry; and a receipt is      *)
(* published only by popping one queued entry.                             *)
(***************************************************************************)
IsVariant(p, f, variant) ==
    LET d == Decode(p, f.data) IN d.ok /\ d.variant = variant

C7_ReceiptsNotAcked ==
    [][\A p \in Peers :
         /\ \A f \in net :
               /\ HandlesFrame(p, f) /\ IsVariant(p, f, "Receipt") =>
                     /\ receipt_queue'[p] = receipt_queue[p]
                     /\ published' = published
                     /\ net' = net \ {f}
               /\ HandlesFrame(p, f) /\ IsVariant(p, f, "Message") =>
                     Len(receipt_queue'[p]) = Len(receipt_queue[p]) + 1
         /\ Len(receipt_queue'[p]) > Len(receipt_queue[p]) =>
               \E f \in net : HandlesFrame(p, f) /\ IsVariant(p, f, "Message")
         /\ PublishCalls(p, "receipt")' # PublishCalls(p, "receipt") =>
               /\ Len(receipt_queue'[p]) = Len(receipt_queue[p]) - 1
               /\ Cardinality(published' \ published) = 1
      ]_vars

\* an actor has just handled a receipt for a message it had sent
C7_Witness ==
    \E p \in Peers :
       /\ pc[p] = "drain"
       /\ receipt_queue[p] = <<>>
       /\ DeliveredIds(p) # {}
       /\ PublishCalls(p, "receipt") = {}

(***************************************************************************)
(* C8.  The receipt queue is empty whenever the event loop starts an       *)
(* iteration: what handling a swarm event enqueued is popped and given to  *)
(* send_receipt before the loop goes on, also when the handler or          *)
(* send_receipt fails, and send_receipt never adds to the queue.           *)
(***************************************************************************)
C8_QueueDrained ==
    /\ [](\A p \in Peers : pc[p] = "select" => receipt_queue[p] = <<>>)
    /\ [][\A p \in Peers :
             pc[p] = "drain" =>
                \/ receipt_queue'[p] = receipt_queue[p]
                \/ /\ receipt_queue[p] # <<>>
                   /\ receipt_queue'[p] =
                         SubSeq(receipt_queue[p], 1, Len(receipt_queue[p]) - 1)]_vars

\* a send_receipt failed and the loop went on with an empty queue
C8_Witness ==
    \E p \in Peers :
       /\ pc[p] = "select"
       /\ result[p] = "Err"
       /\ \E c \in PublishCalls(p, "receipt") : ~c.ok

(***************************************************************************)
(* C9.  An inbound frame that is shorter than 32 bytes, fails              *)
(* authentication or does not parse as an envelope is dropped: no host     *)
(* event, no receipt enqueued, PendingReceipts unchanged.  ghost_error is  *)
(* emitted only while a SendMessage command that failed is serviced.       *)
(***************************************************************************)
Malformed(p, data) ==
    \/ DataLen(data) < PUBKEY_LEN
    \/ ~decrypt_message(shared_secret(p, data.prefix), data.body).ok
    \/ ~ParseP2PMessage(decrypt_message(shared_secret(p, data.prefix), data.body).plain).ok

C9_MalformedDropped ==
    [][\A p \in Peers :
         /\ \A f \in net : HandlesFrame(p, f) /\ Malformed(p, f.data) => ActorStateKept(p)
         /\ EmitCount(p, "ghost_error")' # EmitCount(p, "ghost_error") =>
               /\ pc[p] = "select"
               /\ chan[p] # <<>>
               /\ Head(chan[p]).type = "SendMessage"
               /\ chan'[p] = Tail(chan[p])
               /\ result'[p] = "Err"
               /\ EmitCount(p, "ghost_error")' = EmitCount(p, "ghost_error") + 1
      ]_vars

\* an actor has just handled a frame of the outsider's that is malformed
C9_Witness ==
    \E p \in Peers : \E f \in injected :
       /\ f.topic = InboxTopic(public_id(p))
       /\ Malformed(p, f.data)
       /\ f \notin net
       /\ pc[p] = "drain"
       /\ result[p] = "Err"

(***************************************************************************)
(* SpecTimer: the actor of one peer, its host and the clock.  The other    *)
(* peer is offline, so nothing arrives on the inbox topic.                 *)
(***************************************************************************)
NextTimer ==
    \/ \E p \in Senders : start_ghost_mode(p)
    \/ \E p \in Senders, ok \in BOOLEAN : ActorInit(p, ok)
    \/ \E p \in Senders : \E t \in Targets(p), c \in Contents :
          Len(chan[p]) < MaxQueued /\ host_send_ghost_message(p, t, c)
    \/ \E p \in Senders, pubOk \in BOOLEAN, nonce \in Nonces : ActorSendMessage(p, pubOk, nonce)
    \/ \E p \in Senders : SwarmOther(p)
    \/ \E p \in Senders : DrainDone(p)
    \/ \E p \in Senders : Sweep(p)
    \/ Tick

SpecTimer == Init /\ [][NextTimer]_vars

(***************************************************************************)
(* LiveSpec: both peers and the clock, one message sent to the other       *)
(* peer's public id, under the fairness of the actor's event loop: select! *)
(* polls its arms in random order, so an arm that is ready again and again *)
(* is taken (a command in the channel, a frame gossipsub holds for the     *)
(* inbox topic), and the loop that drains the receipt queue runs on.       *)
(***************************************************************************)
NextLive ==
    \/ \E p \in Peers : start_ghost_mode(p)
    \/ \E p \in Peers, ok \in BOOLEAN : ActorInit(p, ok)
    \/ \E p \in Senders : \E q \in Peers \ {p}, c \in Contents :
          nextId <= FewMsgs /\ host_send_ghost_message(p, public_id(q), c)
    \/ \E p \in Peers, pubOk \in BOOLEAN, nonce \in Nonces : ActorSendMessage(p, pubOk, nonce)
    \/ \E p \in Peers : \E f \in net : SwarmMessage(p, f)
    \/ \E p \in Peers, pubOk \in BOOLEAN, nonce \in Nonces : DrainPop(p, pubOk, nonce)
    \/ \E p \in Peers : DrainDone(p)
    \/ \E p \in Peers : Sweep(p)
    \/ Tick

LoopFairness ==
    \A p \in Peers :
       /\ SF_vars(\E pubOk \in BOOLEAN, nonce \in Nonces : ActorSendMessage(p, pubOk, nonce))
       /\ SF_vars(\E f \in net : SwarmMessage(p, f))
       /\ WF_vars(\E pubOk \in BOOLEAN, nonce \in Nonces : DrainPop(p, pubOk, nonce))
       /\ WF_vars(DrainDone(p))

LiveSpec == Init /\ [][NextLive]_vars /\ LoopFairness

(***************************************************************************)
(* SpecChan: the host of one peer and its actor, with no bound on the host *)
(* calls but the channel's own.                                            *)
(***************************************************************************)
NextChan ==
    \/ \E p \in Senders : start_ghost_mode(p)
    \/ \E p \in Senders, ok \in BOOLEAN : ActorInit(p, ok)
    \/ \E p \in Senders : \E t \in Targets(p), c \in Contents :
          nextId <= FewMsgs /\ host_send_ghost_message(p, t, c)
    \/ \E p \in Senders : stop_ghost_mode(p)
    \/ \E p \in Senders : SendCompletes(p)
    \/ \E p \in Senders, pubOk \in BOOLEAN, nonce \in Nonces : ActorSendMessage(p, pubOk, nonce)
    \/ \E p \in Senders : ActorShutdown(p)

SpecChan == Init /\ [][NextChan]_vars

(***************************************************************************)
(* C1.  With both actors in their event loops, a fair loop and a gossip    *)
(* layer that delivers what was published: once A's                        *)
(* send_ghost_message(B.public_id, c) has returned id m, B's window gets   *)
(* ghost_msg with id m and content c, and A's window gets msg_delivered    *)
(* with message_id m.                                                      *)
(***************************************************************************)
\* the calls send_ghost_message(q.public_id, c) of p that returned id m
Calls == {<< p, q, m, c >> : p \in Senders, q \in Peers, m \in Ids, c \in Contents}

HasReturned(p, q, m, c) ==
    /\ p # q
    /\ [by |-> p, message_id |-> m, target |-> public_id(q), content |-> c] \in returned
    /\ Running(p)
    /\ Running(q)

GhostMsgSeen(q, m, c) ==
    \E e \in EventsNamed(q, "ghost_msg") : e.payload.id = m /\ e.payload.content = c

MessagePublishFailed(p, m) ==
    \E c \in PublishCalls(p, "message") : ~c.ok /\ c.data.body.plain.json.id = m

ReceiptPublishFailed(q, m) ==
    \E c \in PublishCalls(q, "receipt") : ~c.ok /\ c.data.body.plain.json.message_id = m

\* the sweep has taken the entry of m before a receipt for it was handled
Evicted(p, m) ==
    /\ m \in dequeued[p]
    /\ m \notin PendingIds(pending_acks[p])
    /\ m \notin DeliveredIds(p)

\* C1 as it is worded.  It fails where gossipsub refuses the publish of m:
\* send_ghost_message returns Err, the actor emits ghost_error, and neither
\* actor has anything left to do for m, however long the two run on.
C1_Original ==
    \A k \in Calls :
       HasReturned(k[1], k[2], k[3], k[4]) ~>
          (GhostMsgSeen(k[2], k[3], k[4]) /\ k[3] \in DeliveredIds(k[1]))

\* C1 as the code has it: both events come unless gossipsub refuses a
\* publish or the entry of m is swept before the receipt is handled.
C1_Amended ==
    \A k \in Calls :
       /\ HasReturned(k[1], k[2], k[3], k[4]) ~>
             (GhostMsgSeen(k[2], k[3], k[4]) \/ MessagePublishFailed(k[1], k[3]))
       /\ HasReturned(k[1], k[2], k[3], k[4]) ~>
             \/ k[3] \in DeliveredIds(k[1])
             \/ MessagePublishFailed(k[1], k[3])
             \/ ReceiptPublishFailed(k[2], k[3])
             \/ Evicted(k[1], k[3])

\* a message went through and was confirmed
C1_Witness ==
    \E k \in Calls :
       /\ HasReturned(k[1], k[2], k[3], k[4])
       /\ GhostMsgSeen(k[2], k[3], k[4])
       /\ k[3] \in DeliveredIds(k[1])

(***************************************************************************)
(* C3.  The sweep of PendingReceipts fires periodically in every run, also *)
(* when swarm events or commands come more often than once in 60 seconds,  *)
(* so PendingReceipts never keeps an entry older than the 300-second TTL   *)
(* plus one sweep period.                                                  *)
(***************************************************************************)
C3_NoStaleEntry ==
    \A p \in Peers : \A e \in pending_acks[p] :
       now - e.timestamp <= ACK_TTL + SWEEP_PERIOD

(***************************************************************************)
(* C10.  The command channel never holds more than 100 commands, and a     *)
(* host call that finds it full returns Busy to its caller: no call waits  *)
(* for space.                                                              *)
(***************************************************************************)
C10_BusyWhenFull ==
    \A p \in Peers : Len(chan[p]) <= CHANNEL_CAPACITY /\ waiting[p] = <<>>

(***************************************************************************)
(* StopSpec: both peers, one message, the outsider, and stop_ghost_mode,   *)
(* under the fairness of the spawned task and of its event loop: the task  *)
(* tokio spawned runs, and select! takes an arm that is ready again and    *)
(* again.                                                                  *)
(***************************************************************************)
NextStop ==
    \/ \E p \in Peers : start_ghost_mode(p)
    \/ \E p \in Peers, ok \in BOOLEAN : ActorInit(p, ok)
    \/ \E p \in Senders : \E q \in Peers \ {p}, c \in Contents :
          /\ nextId <= FewMsgs
          /\ Len(chan[p]) < MaxQueued
          /\ host_send_ghost_message(p, public_id(q), c)
    \/ \E p \in Peers : Len(chan[p]) < MaxQueued /\ stop_ghost_mode(p)
    \/ \E p \in Peers, pubOk \in BOOLEAN, nonce \in Nonces : ActorSendMessage(p, pubOk, nonce)
    \/ \E p \in Peers : ActorShutdown(p)
    \/ \E p \in Peers : \E f \in net : SwarmMessage(p, f)
    \/ \E p \in Peers, pubOk \in BOOLEAN, nonce \in Nonces : DrainPop(p, pubOk, nonce)
    \/ \E p \in Peers : DrainDone(p)
    \/ \E p \in Peers : \E data \in OutsiderFrames(p) : Inject(p, data)

StopFairness ==
    /\ LoopFairness
    /\ \A p \in Peers :
          /\ WF_vars(\E ok \in BOOLEAN : ActorInit(p, ok))
          /\ SF_vars(ActorShutdown(p))

StopSpec == Init /\ [][NextStop]_vars /\ StopFairness

(***************************************************************************)
(* C11.  Once stop_ghost_mode has sent Shutdown, the actor takes it from   *)
(* the channel and leaves its loop.  From the step that takes Shutdown on, *)
(* the actor handles no command and no swarm event, emits no host event,   *)
(* publishes nothing, and its PendingReceipts are dropped with no          *)
(* msg_delivered.                                                          *)
(***************************************************************************)
ShutdownSent(p) == \E i \in 1..Len(chan[p]) : chan[p][i].type = "Shutdown"

FramesFor(p) == {f \in net : f.topic = InboxTopic(public_id(p))}

PublishedBy(p) == {c \in published : c.by = p}

C11_ShutdownStops ==
    /\ \A p \in Peers : ShutdownSent(p) ~> (pc[p] = "exited")
    /\ [][\A p \in Peers :
             /\ pc[p] = "select" /\ pc'[p] = "exited" =>
                   /\ events'[p] = events[p]
                   /\ PublishedBy(p)' = PublishedBy(p)
                   /\ pending_acks'[p] = {}
             /\ pc[p] = "exited" =>
                   /\ pc'[p] = "exited"
                   /\ events'[p] = events[p]
                   /\ PublishedBy(p)' = PublishedBy(p)
                   /\ pending_acks'[p] = {}
                   /\ dequeued'[p] = dequeued[p]
                   /\ FramesFor(p) \subseteq net'
      ]_vars

\* an actor that had sent a message was shut down before the receipt for it
\* was handled: the receipt stays with gossipsub and no event comes
C11_Witness ==
    \E p \in Peers :
       /\ pc[p] = "exited"
       /\ dequeued[p] # {}
       /\ DeliveredIds(p) = {}
       /\ \E f \in FramesFor(p) : IsVariant(p, f, "Receipt")

(***************************************************************************)
(* C12.  The host's sender slot is written when the actor starts and       *)
(* cleared on shutdown: when stop_ghost_mode returns, AppState.p2p_sender  *)
(* is None.                                                                *)
(***************************************************************************)
StopReturns(p) ==
    /\ Len(chan'[p]) = Len(chan[p]) + 1
    /\ chan'[p][Len(chan'[p])].type = "Shutdown"

C12_SlotClearedOnStop ==
    [][\A p \in Peers : StopReturns(p) => p2p_sender'[p] = None]_vars

(***************************************************************************)
(* The identity file (crypto.rs) and init_identity (main.rs).              *)
(***************************************************************************)
\* calls of init_identity and load_or_generate in one run
MaxCalls == 3

Passwords == {"w1", "w2"}

\* SaltString::generate: a salt is a base64 string; 0 stands for a string
\* that SaltString::from_b64 rejects
Salts == {1, 2}
BadSalt == 0

\* Identity::generate: the n-th call draws the n-th of these private keys,
\* all distinct
GeneratedKey(n) == 2 * n + 1

IdentityOf(private) ==
    [public_key |-> KeyBytes(PowMod(Generator, private)),
     private_key |-> Bytes(PUBKEY_LEN, private)]

\* Identity::public_id of an identity
PublicIdOf(id) == Base58Encode(id.public_key)

\* Argon2id with the fixed parameters, and AES-256-GCM
Argon2(password, salt) == << "argon2id", password, salt >>

AesGcmEncrypt(key, nonce, plain) ==
    [kind |-> "aead", key |-> key, nonce |-> nonce, plain |-> plain]

AesGcmDecrypt(key, nonce, ciphertext) ==
    IF ciphertext.kind = "aead" /\ ciphertext.key = key /\ ciphertext.nonce = nonce
    THEN [ok |-> TRUE, plain |-> ciphertext.plain]
    ELSE [ok |-> FALSE]

\* StoredIdentity as JSON text, and text that is no such JSON
StoredIdentity(salt, nonce, ciphertext) ==
    [json |-> TRUE, salt |-> salt, nonce |-> nonce, ciphertext |-> ciphertext]
NotJson == [json |-> FALSE]

\* save_to_disk: what it writes to the file
save_to_disk_other_key(id, password, salt, nonce) ==
    StoredIdentity(salt, Bytes(NONCE_SIZE, nonce),
        AesGcmEncrypt(Argon2(password, salt), Bytes(NONCE_SIZE, nonce),
                      Bytes(PUBKEY_LEN, id.private_key.val + 2)))

save_to_disk(id, password, salt, nonce) ==
    StoredIdentity(salt, Bytes(NONCE_SIZE, nonce),
        AesGcmEncrypt(Argon2(password, salt), Bytes(NONCE_SIZE, nonce), id.private_key))

Failed(kind) == [kind |-> kind, identity |-> Absent]

\* A faulty variant of load_from_disk, which C15 must tell from it: the key
\* is taken from the blob whatever the password.
load_from_disk_any_password(password, content) ==
    IF ~content.json THEN Failed("Err")
    ELSE IF content.salt = BadSalt THEN Failed("Err")
    ELSE IF content.nonce.len # NONCE_SIZE THEN Failed("Panic")
    ELSE IF content.ciphertext.kind # "aead" THEN Failed("Err")
    ELSE [kind |-> "Ok", identity |-> Some(IdentityOf(content.ciphertext.plain.val))]

\* load_from_disk: Err where a step returns an error, Panic where
\* Nonce::from_slice is given a nonce that is not 12 bytes long
load_from_disk(password, content) ==
    IF ~content.json THEN Failed("Err")
    ELSE IF content.salt = BadSalt THEN Failed("Err")
    ELSE IF content.nonce.len # NONCE_SIZE THEN Failed("Panic")
    ELSE LET key == Argon2(password, content.salt)
             plaintext == AesGcmDecrypt(key, content.nonce, content.ciphertext)
         IN  IF ~plaintext.ok THEN Failed("Err")
             ELSE IF plaintext.plain.len # PUBKEY_LEN THEN Failed("Err")
             ELSE [kind |-> "Ok", identity |-> Some(IdentityOf(plaintext.plain.val))]

\* load_or_generate: the outcome, the file and the other storage state after it
load_or_generate(password, file, was_saved, count, salt, nonce) ==
    IF file.some
    THEN LET loaded == load_from_disk(password, file.value) IN
         [kind |-> loaded.kind, identity |-> loaded.identity, file |-> file,
          saved |-> was_saved, generated |-> count]
    ELSE LET id == IdentityOf(GeneratedKey(count + 1))
             content == save_to_disk(id, password, salt, nonce)
         IN  [kind |-> "Ok", identity |-> Some(id), file |-> Some(content),
              saved |-> Some([password |-> password, content |-> content, identity |-> id]),
              generated |-> count + 1]

CallResult(op, password, kind, id, with_id) ==
    [n |-> id_result.n + 1, op |-> op, password |-> password, kind |-> kind,
     public_key |-> IF id.some THEN Some(id.value.public_key) ELSE Absent,
     public_id |-> IF id.some /\ with_id THEN Some(PublicIdOf(id.value)) ELSE Absent]

\* a direct call of Identity::load_or_generate on the data directory
LoadOrGenerate(password, salt, nonce) ==
    /\ id_result.n < MaxCalls
    /\ LET r == load_or_generate(password, identity_file, saved, generated, salt, nonce) IN
          /\ identity_file' = r.file
          /\ saved' = r.saved
          /\ generated' = r.generated
          /\ id_result' = CallResult("load_or_generate", password, r.kind, r.identity, FALSE)
    /\ UNCHANGED identity
    /\ UNCHANGED p2pVars
    /\ UNCHANGED << dropVars, sealVars, taskVars >>

\* init_identity: when load_or_generate fails, the file is removed and
\* load_or_generate is called again; a panic ends the call where it is
init_identity(password, salt, nonce) ==
    /\ id_result.n < MaxCalls
    /\ LET first == load_or_generate(password, identity_file, saved, generated, salt, nonce)
           again == load_or_generate(password, Absent, saved, generated, salt, nonce)
           r == IF first.kind = "Err" THEN again ELSE first
       IN  /\ identity_file' = r.file
           /\ saved' = r.saved
           /\ generated' = r.generated
           /\ identity' = IF r.kind = "Ok" THEN r.identity ELSE identity
           /\ id_result' = CallResult("init_identity", password, r.kind, r.identity, TRUE)
    /\ UNCHANGED p2pVars
    /\ UNCHANGED << dropVars, sealVars, taskVars >>

\* what someone with access to the data directory, and without the password,
\* can make of the blob: another salt, a salt that does not parse, another
\* nonce, a nonce of another length, other ciphertext bytes, text that is
\* not JSON
Altered(content) ==
    IF ~content.json THEN {}
    ELSE {[content EXCEPT !.salt = x] : x \in (Salts \cup {BadSalt}) \ {content.salt}}
         \cup {[content EXCEPT !.nonce = Bytes(NONCE_SIZE, content.nonce.val + 1)],
               [content EXCEPT !.nonce = Bytes(NONCE_SIZE - 1, content.nonce.val)],
               [content EXCEPT !.ciphertext = RawBytes(PUBKEY_LEN + 16)],
               NotJson}

Tamper(content) ==
    /\ identity_file.some
    /\ saved.some
    /\ identity_file.value = saved.value.content
    /\ content \in Altered(identity_file.value)
    /\ identity_file' = Some(content)
    /\ UNCHANGED << identity, saved, generated, id_result >>
    /\ UNCHANGED p2pVars
    /\ UNCHANGED << dropVars, sealVars, taskVars >>

(***************************************************************************)
(* IdentitySpec: the calls on the identity of one host, and the file       *)
(* altered behind its back.                                                *)
(***************************************************************************)
NextIdentity ==
    \/ \E w \in Passwords, salt \in Salts, nonce \in Nonces : init_identity(w, salt, nonce)
    \/ \E w \in Passwords, salt \in Salts, nonce \in Nonces : LoadOrGenerate(w, salt, nonce)
    \/ identity_file.some /\ \E content \in Altered(identity_file.value) : Tamper(content)

IdentitySpec == Init /\ [][NextIdentity]_vars

(***************************************************************************)
(* C13.  An identity, once created on first unlock, is only loaded         *)
(* afterwards and never replaced: whatever the init_identity calls and     *)
(* their passwords, the identity file keeps the key generated first, and   *)
(* every init_identity that succeeds returns the public id of that         *)
(* identity.                                                               *)
(***************************************************************************)
FirstIdentity == IdentityOf(GeneratedKey(1))

C13_IdentityKept ==
    /\ saved.some => saved.value.identity = FirstIdentity
    /\ id_result.op = "init_identity" /\ id_result.kind = "Ok" =>
          id_result.public_id = Some(PublicIdOf(FirstIdentity))

(***************************************************************************)
(* C14.  load_or_generate(w, D) on a file that holds identity I saved      *)
(* under w returns an identity with I's public key; and with no file it    *)
(* creates the file, from which a later load_or_generate(w, D) returns the *)
(* public key the first call returned.                                     *)
(***************************************************************************)
\* this step is a call load_or_generate(w, D)
LoadCall(w) ==
    /\ id_result'.n = id_result.n + 1
    /\ id_result'.op = "load_or_generate"
    /\ id_result'.password = w

\* the file is as save_to_disk wrote it
Untouched == identity_file.some /\ saved.some /\ identity_file.value = saved.value.content

C14_LoadReturnsSaved ==
    [][\A w \in Passwords : LoadCall(w) =>
          /\ Untouched /\ saved.value.password = w =>
                /\ id_result'.kind = "Ok"
                /\ id_result'.public_key = Some(saved.value.identity.public_key)
          /\ ~identity_file.some =>
                /\ identity_file'.some
                /\ id_result'.kind = "Ok"
                /\ load_from_disk(w, identity_file'.value).kind = "Ok"
                /\ Some(load_from_disk(w, identity_file'.value).identity.value.public_key)
                      = id_result'.public_key
      ]_vars

\* a file made by one call was loaded by a later one
C14_Witness ==
    /\ id_result.n >= 2
    /\ id_result.op = "load_or_generate"
    /\ id_result.kind = "Ok"
    /\ generated = 1
    /\ id_result.public_key = Some(FirstIdentity.public_key)

(***************************************************************************)
(* C15.  load_or_generate on an existing identity file fails if and only   *)
(* if the password is not the one the file was saved under or the stored   *)
(* blob (salt, nonce or ciphertext) was altered; when it fails it returns  *)
(* no Identity and leaves the file as it was.                              *)
(***************************************************************************)
C15_LoadFailsIff ==
    [][\A w \in Passwords : LoadCall(w) /\ identity_file.some =>
          /\ id_result'.kind # "Ok" <=> (w # saved.value.password \/ ~Untouched)
          /\ id_result'.kind # "Ok" =>
                /\ id_result'.public_key = Absent
                /\ identity_file' = identity_file
                /\ identity' = identity
      ]_vars

\* a load with another password than the one the file was saved under failed
C15_Witness ==
    /\ id_result.op = "load_or_generate"
    /\ id_result.kind = "Err"
    /\ Untouched
    /\ id_result.password # saved.value.password

(***************************************************************************)
(* Dead drops (dead_drop.rs): the session key split with Shamir's scheme.  *)
(* sharks works bytewise in GF(256); here a secret is one element of the   *)
(* prime field of 257 elements, which has room for the 255 share points.   *)
(***************************************************************************)
FieldPrime == 257
U8_MAX == 255
KEY_LEN == 32

RECURSIVE FieldPow(_, _)
FieldPow(b, e) ==
    IF e = 0 THEN 1
    ELSE LET h == FieldPow(b, e \div 2) IN
         IF e % 2 = 0 THEN (h * h) % FieldPrime ELSE (((h * h) % FieldPrime) * b) % FieldPrime

FieldInv(a) == FieldPow(a % FieldPrime, FieldPrime - 2)
FieldSub(a, b) == (a + FieldPrime - (b % FieldPrime)) % FieldPrime

\* the polynomial of the dealer: the secret and threshold - 1 random
\* coefficients, evaluated at x by Horner's rule from the highest down
RECURSIVE Horner(_, _, _)
Horner(coefficients, x, acc) ==
    IF coefficients = <<>> THEN acc
    ELSE Horner(Tail(coefficients), x, (acc * x + Head(coefficients)) % FieldPrime)

Share(x, y, len) == [x |-> x, y |-> y, len |-> len]

\* Sharks(threshold).dealer(secret).take(total): the shares at x = 1, 2, ...;
\* the dealer has 255 of them
Deal(secret, random, total) ==
    [i \in 1..(IF total < U8_MAX THEN total ELSE U8_MAX) |->
        Share(i, Horner(random \o << secret.val >>, i, 0), secret.len)]

\* math::interpolate: the value at 0 of the polynomial through the shares,
\* the sum over the shares s_i of y_i times the product, over the shares s_j
\* at another point, of x_j / (x_j - x_i)
RECURSIVE RatioProduct(_, _)
RatioProduct(others, s_i) ==
    IF others = {} THEN 1
    ELSE LET s_j == CHOOSE s \in others : TRUE
             ratio == (s_j.x * FieldInv(FieldSub(s_j.x, s_i.x))) % FieldPrime
         IN  (ratio * RatioProduct(others \ {s_j}, s_i)) % FieldPrime

RECURSIVE WeightedSum(_, _)
WeightedSum(rest, shares) ==
    IF rest = {} THEN 0
    ELSE LET s_i == CHOOSE s \in rest : TRUE
             weight == RatioProduct({s_j \in shares : s_j.x # s_i.x}, s_i)
         IN  (weight * s_i.y + WeightedSum(rest \ {s_i}, shares)) % FieldPrime

Interpolate(shares) == WeightedSum(shares, shares)

\* A faulty variant of recover, which C16 must tell from it: the secret is
\* read off the first share.
RecoverFirstShare(threshold, shares) ==
    IF shares = {} THEN [ok |-> FALSE]
    ELSE LET first == CHOOSE s \in shares : \A r \in shares : s.x <= r.x
         IN  [ok |-> TRUE, secret |-> Bytes(first.len, first.y)]

\* Sharks(threshold).recover(shares): an error when the shares differ in
\* length, when there is none or when fewer than threshold points are given
Recover(threshold, shares) ==
    IF \E s, r \in shares : s.len # r.len THEN [ok |-> FALSE]
    ELSE IF shares = {} \/ Cardinality({s.x : s \in shares}) < threshold THEN [ok |-> FALSE]
    ELSE [ok |-> TRUE,
          secret |-> Bytes((CHOOSE s \in shares : TRUE).len, Interpolate(shares))]

\* hex::encode of Vec::from(share), x followed by the bytes of y, and the way
\* back: hex::decode, then Share::try_from, which wants two bytes or more
HexText(chars, share) == [chars |-> chars, share |-> share]
ShardString(share) == HexText(2 * (1 + share.len), share)

ParseShard(text) ==
    IF text.chars % 2 # 0 THEN [ok |-> FALSE, err |-> "Invalid hex shard"]
    ELSE IF text.chars \div 2 < 2 THEN [ok |-> FALSE, err |-> "Invalid share"]
    ELSE [ok |-> TRUE,
          share |-> Share(text.share.x, text.share.y, text.chars \div 2 - 1)]

(***************************************************************************)
(* Dead drops: files, the session key's AEAD and the framed stream.        *)
(* A file is the first len bytes of the content named val; what is read    *)
(* from it or written out is a slice [val, off, len], and the bytes of an  *)
(* output file are the sequence of the slices written, adjacent ones       *)
(* joined.                                                                 *)
(***************************************************************************)
CHUNK_SIZE == 4 * 1024 * 1024
TAG_SIZE == 16
LEN_PREFIX == 4

Slice(val, off, len) == [val |-> val, off |-> off, len |-> len]

FileContent(file) == IF file.len = 0 THEN << >> ELSE << Slice(file.val, 0, file.len) >>

\* Write::write_all on the output: the bytes are appended
WriteAll(content, slice) ==
    IF slice.len = 0 THEN content
    ELSE IF content = << >> THEN << slice >>
    ELSE LET last == content[Len(content)] IN
         IF last.val = slice.val /\ last.off + last.len = slice.off
         THEN [content EXCEPT ![Len(content)] = Slice(last.val, last.off, last.len + slice.len)]
         ELSE Append(content, slice)

\* the Poly1305 tag of ChaCha20-Poly1305: it names what it was computed
\* over, and whether a bit of it was flipped since
Poly1305(key, nonce, data) == [key |-> key, nonce |-> nonce, data |-> data, flipped |-> FALSE]

\* SessionKey::encrypt_file: nonce || ciphertext || tag under a fresh nonce;
\* key and data stand for the ciphertext, the data enciphered under the key
encrypt_file(key, nonce, data) ==
    [key |-> key, nonce |-> nonce, data |-> data, tag |-> Poly1305(key, nonce, data),
     len |-> NONCE_SIZE + data.len + TAG_SIZE]

\* A faulty variant of decrypt_file, which C24 must tell from it: the tag is
\* not verified.
decrypt_file_unverified(key, data) ==
    IF data.len < NONCE_SIZE THEN [ok |-> FALSE, err |-> "Invalid encrypted data: too short"]
    ELSE IF data.key # key THEN [ok |-> FALSE, err |-> "Decryption failed"]
    ELSE [ok |-> TRUE, plaintext |-> data.data]

\* SessionKey::decrypt_file: the first 12 bytes are the nonce, the last 16
\* of the rest the tag, which verifies under the key over that nonce and
\* the ciphertext of that key
decrypt_file(key, data) ==
    IF data.len < NONCE_SIZE THEN [ok |-> FALSE, err |-> "Invalid encrypted data: too short"]
    ELSE IF \/ data.len # NONCE_SIZE + data.data.len + TAG_SIZE
            \/ data.key # key
            \/ data.tag # Poly1305(key, data.nonce, data.data)
    THEN [ok |-> FALSE, err |-> "Decryption failed"]
    ELSE [ok |-> TRUE, plaintext |-> data.data]

\* one frame of the stream: the length of the encrypted chunk as four
\* little-endian bytes, then the encrypted chunk
ChunkFrame(encrypted_chunk) == [chunk_size |-> encrypted_chunk.len, encrypted_chunk |-> encrypted_chunk]

RECURSIVE StreamLen(_)
StreamLen(frames) ==
    IF frames = << >> THEN 0
    ELSE LEN_PREFIX + Head(frames).chunk_size + StreamLen(Tail(frames))

\* the bytes of a stream: the frames as written and the number of bytes of
\* them that are there, fewer than all of them once the stream was cut
Stream(frames, len) == [frames |-> frames, len |-> len]

\* A faulty variant of the loop, which C26 must tell from it: a read that
\* does not fill the buffer is taken for the end of the file.
RECURSIVE EncryptFullChunks(_, _, _, _)
EncryptFullChunks(file, off, key, seed) ==
    IF file.len - off < CHUNK_SIZE THEN << >>
    ELSE << ChunkFrame(encrypt_file(key, (seed + off \div CHUNK_SIZE) % 2,
                                    Slice(file.val, off, CHUNK_SIZE))) >>
             \o EncryptFullChunks(file, off + CHUNK_SIZE, key, seed)

\* the loop of stream_encrypt_file from offset off of the file on: a read of
\* up to CHUNK_SIZE bytes, the end at a read of none
RECURSIVE EncryptChunks(_, _, _, _)
EncryptChunks(file, off, key, seed) ==
    LET left == file.len - off
        bytes_read == IF left < CHUNK_SIZE THEN left ELSE CHUNK_SIZE
    IN  IF bytes_read = 0 THEN << >>
        ELSE LET chunk_data == Slice(file.val, off, bytes_read)
                 nonce == (seed + off \div CHUNK_SIZE) % 2
             IN  << ChunkFrame(encrypt_file(key, nonce, chunk_data)) >>
                     \o EncryptChunks(file, off + bytes_read, key, seed)

\* A faulty variant of the count, which C27 must tell from it: the four
\* bytes of the length are not counted.
RECURSIVE TotalWithoutPrefix(_, _, _, _, _)
TotalWithoutPrefix(file, off, key, seed, total_encrypted) ==
    LET left == file.len - off
        bytes_read == IF left < CHUNK_SIZE THEN left ELSE CHUNK_SIZE
    IN  IF bytes_read = 0 THEN total_encrypted
        ELSE TotalWithoutPrefix(file, off + bytes_read, key, seed,
                 total_encrypted + encrypt_file(key, 1, Slice(file.val, off, bytes_read)).len)

\* what stream_encrypt_file returns: total_encrypted, which the loop raises
\* by 4 + encrypted_chunk.len() for each chunk it writes
RECURSIVE TotalEncrypted(_, _, _, _, _)
TotalEncrypted(file, off, key, seed, total_encrypted) ==
    LET left == file.len - off
        bytes_read == IF left < CHUNK_SIZE THEN left ELSE CHUNK_SIZE
    IN  IF bytes_read = 0 THEN total_encrypted
        ELSE LET encrypted_chunk == encrypt_file(key, (seed + off \div CHUNK_SIZE) % 2,
                                                 Slice(file.val, off, bytes_read))
             IN  TotalEncrypted(file, off + bytes_read, key, seed,
                                total_encrypted + 4 + encrypted_chunk.len)

stream_encrypt_file(file, key, seed) ==
    LET frames == EncryptChunks(file, 0, key, seed) IN Stream(frames, StreamLen(frames))

\* the loop of stream_decrypt_file at byte pos of the stream, frame i next:
\* read_exact of the four length bytes ends the loop when it meets the end of
\* the input, read_exact of the chunk and its decryption are errors when
\* they fail
RECURSIVE DecryptFrames(_, _, _, _, _)
DecryptFrames(stream, i, pos, key, written) ==
    IF stream.len - pos < LEN_PREFIX THEN [kind |-> "Ok", err |-> "", written |-> written]
    ELSE LET frame == stream.frames[i] IN
         IF stream.len - pos - LEN_PREFIX < frame.chunk_size
         THEN [kind |-> "Err", err |-> "Failed to read encrypted chunk", written |-> written]
         ELSE LET decrypted_chunk == decrypt_file(key, frame.encrypted_chunk) IN
              IF ~decrypted_chunk.ok
              THEN [kind |-> "Err", err |-> "Failed to decrypt chunk", written |-> written]
              ELSE DecryptFrames(stream, i + 1, pos + LEN_PREFIX + frame.chunk_size, key,
                                 WriteAll(written, decrypted_chunk.plaintext))

\* A faulty variant of stream_decrypt_file, which C20 must tell from it: a
\* stream that holds fewer bytes than its frames is refused.
stream_decrypt_whole(stream, key) ==
    IF stream.len < StreamLen(stream.frames)
    THEN [kind |-> "Err", err |-> "Truncated", written |-> << >>]
    ELSE DecryptFrames(stream, 1, 0, key, << >>)

stream_decrypt_file(stream, key) == DecryptFrames(stream, 1, 0, key, << >>)

\* the stream with only its first bytes left
Cut(stream, bytes) == Stream(stream.frames, IF bytes < stream.len THEN bytes ELSE stream.len)

(***************************************************************************)
(* create_dead_drop and retrieve_dead_drop.  A call's outcome carries the  *)
(* steps it went through, in order.                                        *)
(***************************************************************************)
DropErr(err, steps) == [kind |-> "Err", err |-> err, steps |-> steps]

\* the shares of the key as hex strings, in the dealer's order
ShardStrings(key, random, total_shards) ==
    LET shares == Deal(key, random, total_shards) IN
    [i \in DOMAIN shares |-> ShardString(shares[i])]

\* A faulty variant of create_dead_drop, which C18 must tell from it: the
\* threshold is not compared with the number of shares.
create_dead_drop_any_total(file, threshold, total_shards, key, random, seed, upload_ok, cid) ==
    IF threshold < 2 THEN DropErr("Threshold must be at least 2", << >>)
    ELSE IF ~file.some THEN DropErr("Failed to read file metadata", << "metadata" >>)
    ELSE LET stream == stream_encrypt_file(file.value, key, seed) IN
         IF ~upload_ok
         THEN DropErr("IPFS upload failed",
                      << "metadata", "generate", "temp_file", "encrypt", "upload" >>)
         ELSE [kind |-> "Ok", err |-> "",
               steps |-> << "metadata", "generate", "temp_file", "encrypt", "upload", "split" >>,
               cid |-> cid, uploaded |-> stream,
               encrypted_size |-> TotalEncrypted(file.value, 0, key, seed, 0),
               shards |-> ShardStrings(key, random, total_shards)]

\* create_dead_drop: key is what SessionKey::generate draws, random the
\* dealer's coefficients, seed the nonces of the chunks, upload_ok whether
\* the store takes the upload, cid the name it gives it
create_dead_drop(file, threshold, total_shards, key, random, seed, upload_ok, cid) ==
    IF threshold > total_shards THEN DropErr("Threshold cannot exceed total shards", << >>)
    ELSE IF threshold < 2 THEN DropErr("Threshold must be at least 2", << >>)
    ELSE IF ~file.some THEN DropErr("Failed to read file metadata", << "metadata" >>)
    ELSE LET stream == stream_encrypt_file(file.value, key, seed) IN
         IF ~upload_ok
         THEN DropErr("IPFS upload failed",
                      << "metadata", "generate", "temp_file", "encrypt", "upload" >>)
         ELSE [kind |-> "Ok", err |-> "",
               steps |-> << "metadata", "generate", "temp_file", "encrypt", "upload", "split" >>,
               cid |-> cid, uploaded |-> stream,
               encrypted_size |-> TotalEncrypted(file.value, 0, key, seed, 0),
               shards |-> ShardStrings(key, random, total_shards)]

\* A faulty variant of retrieve_dead_drop, which C29 must tell from it: the
\* output file is created before the download.
retrieve_dead_drop_creates_first(stored, shard_strings) ==
    LET parsed == { ParseShard(text) : text \in shard_strings } IN
    IF \E r \in parsed : ~r.ok
    THEN DropErr((CHOOSE r \in parsed : ~r.ok).err, << >>) @@ [output |-> Absent]
    ELSE LET recovered_key_bytes == Recover(0, { r.share : r \in parsed }) IN
         IF ~recovered_key_bytes.ok
         THEN DropErr("Failed to recover key", << "recover" >>) @@ [output |-> Absent]
         ELSE IF ~stored.some
         THEN DropErr("IPFS download failed",
                      << "recover", "session_key", "temp_file", "download" >>)
                  @@ [output |-> Some(<< >>)]
         ELSE LET decrypted == stream_decrypt_file(stored.value, recovered_key_bytes.secret)
                  steps == << "recover", "session_key", "temp_file", "download", "decrypt" >>
              IN  [kind |-> IF decrypted.kind = "Err" THEN "Err" ELSE "Ok",
                   err |-> IF decrypted.kind = "Err" THEN "Failed to decrypt file" ELSE "",
                   steps |-> steps, output |-> Some(decrypted.written)]

\* retrieve_dead_drop: stored is what the store returns for the cid, if
\* anything.  The output file is created by stream_decrypt_file and holds
\* what was written before an error.
retrieve_dead_drop(stored, shard_strings) ==
    LET parsed == { ParseShard(text) : text \in shard_strings } IN
    IF \E r \in parsed : ~r.ok
    THEN DropErr((CHOOSE r \in parsed : ~r.ok).err, << >>) @@ [output |-> Absent]
    ELSE LET shares == { r.share : r \in parsed }
             recovered_key_bytes == Recover(0, shares)
         IN  IF ~recovered_key_bytes.ok
             THEN DropErr("Failed to recover key", << "recover" >>) @@ [output |-> Absent]
             ELSE IF recovered_key_bytes.secret.len # KEY_LEN
             THEN DropErr("Invalid recovered key length", << "recover" >>) @@ [output |-> Absent]
             ELSE IF ~stored.some
             THEN DropErr("IPFS download failed",
                          << "recover", "session_key", "temp_file", "download" >>)
                      @@ [output |-> Absent]
             ELSE LET decrypted == stream_decrypt_file(stored.value, recovered_key_bytes.secret)
                      steps == << "recover", "session_key", "temp_file", "download", "decrypt" >>
                  IN  IF decrypted.kind = "Err"
                      THEN DropErr("Failed to decrypt file", steps)
                               @@ [output |-> Some(decrypted.written)]
                      ELSE [kind |-> "Ok", err |-> "", steps |-> steps,
                            output |-> Some(decrypted.written)]

(***************************************************************************)
(* The host commands create_drop and retrieve_drop of one host, and the    *)
(* IPFS daemon they talk to.                                               *)
(***************************************************************************)
MaxDropCalls == 2
MaxDrops == 1
MaxThreshold == 3

\* the files at the input path: none, the empty file, one short chunk, one
\* full chunk, two chunks and a rest, three full chunks
FileSizes == {0, 17, CHUNK_SIZE, 2 * CHUNK_SIZE + 17, 3 * CHUNK_SIZE}
Files == {Absent} \cup {Some(Bytes(size, 7)) : size \in FileSizes}

\* the arguments: in and around 2 <= threshold <= total_shards <= 255
ShardCounts == ((0..MaxThreshold) \X (0..MaxThreshold))
                   \cup {<< 2, U8_MAX >>, << 2, U8_MAX + 1 >>, << U8_MAX + 1, U8_MAX + 1 >>}

SessionKeys == {Bytes(KEY_LEN, 200), Bytes(KEY_LEN, 41)}

\* the dealer's threshold - 1 coefficients
RandomPolynomials(threshold) ==
    IF threshold \in 2..MaxThreshold THEN [1..(threshold - 1) -> {1, 5}] ELSE {<< >>}

DropCall(op, r) ==
    [n |-> drop_result.n + 1, op |-> op, kind |-> r.kind, err |-> r.err, steps |-> r.steps]

\* whether a call went through a step
Did(call, step) == \E i \in DOMAIN call.steps : call.steps[i] = step

\* The memory that held key bytes during a call, and what it holds when the
\* call has returned: a set of [buffer, holds].
Zeroed == Bytes(KEY_LEN, 0)
Buffer(name, holds) == [buffer |-> name, holds |-> holds]

\* what is left of a SessionKey that is dropped: ZeroizeOnDrop is derived
\* with the one field, key, marked #[zeroize(skip)]
DroppedSessionKey(key) == Buffer("session_key.key", key)

\* create_dead_drop that reached the steps of outcome r with session key
\* key: the array filled in SessionKey::generate is zeroized there; on the
\* way out through ? the session key is dropped; at the end key_bytes is
\* copied into key_bytes_mut, the copy is zeroized and the session key is
\* dropped
create_key_buffers(key, r) ==
    IF ~Did(r, "generate") THEN {}
    ELSE {Buffer("generate.key_bytes", Zeroed), DroppedSessionKey(key)}
             \cup (IF Did(r, "split")
                   THEN {Buffer("key_bytes", key), Buffer("key_bytes_mut", Zeroed)}
                   ELSE {})

\* retrieve_dead_drop that reached the steps of outcome r: the recovered
\* bytes are zeroized when their length is wrong and after
\* SessionKey::from_bytes, which zeroizes its own copy; the session key is
\* dropped on every way out after that
retrieve_key_buffers(shard_strings, r) ==
    IF ~Did(r, "recover") \/ r.err = "Failed to recover key" THEN {}
    ELSE LET secret == Recover(0, { ParseShard(text).share : text \in shard_strings }).secret IN
         {Buffer("recovered_key_bytes", Bytes(secret.len, 0))}
             \cup (IF Did(r, "session_key")
                   THEN {Buffer("from_bytes.key_bytes", Zeroed), DroppedSessionKey(secret)}
                   ELSE {})

\* create_drop: threshold and total_shards are u8 arguments of the command,
\* which does not run with a value that is none
create_drop(file, threshold, total_shards, key, random, seed, upload_ok) ==
    /\ drop_result.n < MaxDropCalls
    /\ Len(drops) < MaxDrops
    /\ LET cid == Len(ipfs) + 1
           r == IF threshold > U8_MAX \/ total_shards > U8_MAX
                THEN DropErr("invalid args", << >>)
                ELSE create_dead_drop(file, threshold, total_shards, key, random, seed,
                                      upload_ok, cid)
       IN  /\ drop_result' = DropCall("create_drop", r)
                                 @@ [threshold |-> threshold, total_shards |-> total_shards,
                                     shards |-> IF r.kind = "Ok" THEN r.shards ELSE << >>,
                                     buffers |-> create_key_buffers(key, r)]
           /\ IF r.kind = "Ok"
              THEN /\ ipfs' = Append(ipfs, r.uploaded)
                   /\ drops' = Append(drops, [file |-> file.value, threshold |-> threshold,
                                              total_shards |-> total_shards, key |-> key,
                                              cid |-> r.cid, shards |-> r.shards,
                                              stream |-> r.uploaded,
                                              encrypted_size |-> r.encrypted_size])
              ELSE UNCHANGED << ipfs, drops >>
    /\ UNCHANGED output_file
    /\ UNCHANGED p2pVars
    /\ UNCHANGED << identityVars, sealVars, taskVars >>

\* retrieve_drop
retrieve_drop(cid, shard_strings, download_ok) ==
    /\ drop_result.n < MaxDropCalls
    /\ LET stored == IF download_ok /\ cid \in DOMAIN ipfs THEN Some(ipfs[cid]) ELSE Absent
           r == retrieve_dead_drop(stored, shard_strings)
       IN  /\ drop_result' = DropCall("retrieve_drop", r)
                                 @@ [cid |-> cid, shard_strings |-> shard_strings,
                                     buffers |-> retrieve_key_buffers(shard_strings, r)]
           /\ output_file' = IF r.output.some THEN r.output ELSE output_file
    /\ UNCHANGED << ipfs, drops >>
    /\ UNCHANGED p2pVars
    /\ UNCHANGED << identityVars, sealVars, taskVars >>

\* the daemon loses the end of what it stores under a cid
StoreCuts(cid, bytes) ==
    /\ cid \in DOMAIN ipfs
    /\ ipfs[cid].len = StreamLen(ipfs[cid].frames)
    /\ bytes < ipfs[cid].len
    /\ ipfs' = [ipfs EXCEPT ![cid] = Cut(ipfs[cid], bytes)]
    /\ UNCHANGED << drops, output_file, drop_result >>
    /\ UNCHANGED p2pVars
    /\ UNCHANGED << identityVars, sealVars, taskVars >>

\* where a stream can end: at a frame's start, one and three bytes into its
\* length, at the end of its length, in its body and one byte before its end
RECURSIVE CutPoints(_, _)
CutPoints(frames, pos) ==
    IF frames = << >> THEN {}
    ELSE LET size == Head(frames).chunk_size IN
         {pos, pos + 1, pos + 3, pos + LEN_PREFIX, pos + LEN_PREFIX + NONCE_SIZE,
          pos + LEN_PREFIX + size - 1}
             \cup CutPoints(Tail(frames), pos + LEN_PREFIX + size)

\* the shard strings a caller hands in: some of a drop's shards, with or
\* without a string of an odd number of hex digits
ShardPicks == {1, 2, 3, U8_MAX}
OddHex == HexText(3, Share(1, 0, 1))
ShardSets(drop) ==
    LET own == { S \in SUBSET (ShardPicks \cap DOMAIN drop.shards) : TRUE } IN
    { { drop.shards[i] : i \in S } : S \in own }
        \cup { { drop.shards[i] : i \in S } \cup {OddHex} : S \in { T \in own : Cardinality(T) <= 1 } }

NextDrop ==
    \/ \E file \in Files, counts \in ShardCounts, key \in SessionKeys, seed \in Nonces,
          upload_ok \in BOOLEAN :
          \E random \in RandomPolynomials(counts[1]) :
              create_drop(file, counts[1], counts[2], key, random, seed, upload_ok)
    \/ \E cid \in 1..(Len(ipfs) + 1), d \in DOMAIN drops, download_ok \in BOOLEAN :
          \E shard_strings \in ShardSets(drops[d]) :
              retrieve_drop(cid, shard_strings, download_ok)
    \/ \E cid \in DOMAIN ipfs :
          \E bytes \in CutPoints(ipfs[cid].frames, 0) : StoreCuts(cid, bytes)

DropSpec == Init /\ [][NextDrop]_vars

\* the drop uploaded under a cid, the shard strings of a drop and the store
\* holding the bytes that were uploaded
ShardsOf(drop) == { drop.shards[i] : i \in DOMAIN drop.shards }
StoreIntact(cid) == cid \in DOMAIN drops /\ ipfs[cid] = drops[cid].stream

\* C16: with a store that returns the uploaded bytes unchanged, retrieving a
\* drop with any threshold-many of its shares succeeds and leaves an output
\* file that is byte for byte the file the drop was created from; this for
\* the empty file, a short file, a file of one full chunk, of two chunks and
\* a rest and of three full chunks.
C16_RoundTrip ==
    [][\A cid \in DOMAIN drops :
          \A shard_strings \in SUBSET { drops[cid].shards[i] :
                                           i \in ShardPicks \cap DOMAIN drops[cid].shards } :
              /\ StoreIntact(cid)
              /\ Cardinality(shard_strings) = drops[cid].threshold
              /\ retrieve_drop(cid, shard_strings, TRUE)
              => /\ drop_result'.kind = "Ok"
                 /\ output_file' = Some(FileContent(drops[cid].file))]_vars

\* a file of two chunks and a rest came back from two shares of three
C16_Witness ==
    /\ drop_result.op = "retrieve_drop"
    /\ drop_result.kind = "Ok"
    /\ StoreIntact(drop_result.cid)
    /\ LET drop == drops[drop_result.cid] IN
          /\ drop.file.len = 2 * CHUNK_SIZE + 17
          /\ drop.threshold = 2
          /\ drop.total_shards = 3
          /\ drop_result.shard_strings \subseteq ShardsOf(drop)
          /\ Cardinality(drop_result.shard_strings) = 2
          /\ output_file = Some(FileContent(drop.file))

\* the shard strings of a drop a caller may hold
HeldShards(drop) == SUBSET { drop.shards[i] : i \in ShardPicks \cap DOMAIN drop.shards }

\* C17: retrieving a drop with fewer distinct shares than its threshold fails
\* where the key is recovered: no session key is built, nothing is
\* downloaded, the output file is not created.
C17_TooFewSharesRefused ==
    [][\A cid \in DOMAIN drops, download_ok \in BOOLEAN :
          \A shard_strings \in HeldShards(drops[cid]) :
              /\ Cardinality(shard_strings) < drops[cid].threshold
              /\ retrieve_drop(cid, shard_strings, download_ok)
              => /\ drop_result'.kind = "Err"
                 /\ drop_result'.err = "Failed to recover key"
                 /\ ~Did(drop_result', "session_key")
                 /\ ~Did(drop_result', "download")
                 /\ output_file' = output_file]_vars

InRange(threshold, total_shards) ==
    2 <= threshold /\ threshold <= total_shards /\ total_shards <= U8_MAX

ValidationErrors ==
    {"Threshold cannot exceed total shards", "Threshold must be at least 2", "invalid args"}

\* C18: a create_drop call with (threshold, total_shards) outside
\* 2 <= threshold <= total_shards <= 255 is an error and goes through no
\* step: no file metadata, no key, no temp file, no upload, the store as it
\* was.  A call inside the range gets past validation, and a successful call
\* returns exactly total_shards shard strings.
C18_RangeEnforced ==
    [][drop_result'.n # drop_result.n /\ drop_result'.op = "create_drop" =>
          LET call == drop_result' IN
          IF InRange(call.threshold, call.total_shards)
          THEN /\ call.err \notin ValidationErrors
               /\ call.kind = "Ok" => /\ Len(call.shards) = call.total_shards
                                      /\ Len(drops') = Len(drops) + 1
                                      /\ ShardsOf(drops'[Len(drops')]) = ShardsOf(call)
          ELSE /\ call.kind = "Err"
               /\ call.err \in ValidationErrors
               /\ call.steps = << >>
               /\ ipfs' = ipfs
               /\ drops' = drops]_vars

\* a call with a threshold above the number of shares was refused at once
C18_Witness ==
    /\ drop_result.op = "create_drop"
    /\ drop_result.threshold = 3
    /\ drop_result.total_shards = 2
    /\ drop_result.kind = "Err"
    /\ drop_result.steps = << >>
    /\ ipfs = << >>

\* the byte positions at which a frame of the stream starts or the last ends
RECURSIVE FrameStarts(_, _)
FrameStarts(frames, pos) ==
    IF frames = << >> THEN {pos}
    ELSE {pos} \cup FrameStarts(Tail(frames), pos + LEN_PREFIX + Head(frames).chunk_size)

\* a retrieval of the drop under cid with its key: threshold-many of its
\* shares and a download that comes back
RetrievesWithKey(cid) ==
    /\ cid \in DOMAIN drops
    /\ \E shard_strings \in HeldShards(drops[cid]) :
          /\ Cardinality(shard_strings) = drops[cid].threshold
          /\ retrieve_drop(cid, shard_strings, TRUE)

\* C19: stream decryption ends normally only when the input ends where a
\* length prefix would start; an input that ends one to three bytes into a
\* length prefix, or inside a frame's body, makes it fail.
C19_ShortReadFails ==
    [][\A cid \in DOMAIN drops :
          RetrievesWithKey(cid) =>
              (drop_result'.kind = "Ok" <=> ipfs[cid].len \in FrameStarts(ipfs[cid].frames, 0))]_vars

\* how many frames of the stream are there whole
RECURSIVE WholeFrames(_, _)
WholeFrames(frames, len) ==
    IF frames = << >> \/ len < LEN_PREFIX + Head(frames).chunk_size THEN 0
    ELSE 1 + WholeFrames(Tail(frames), len - LEN_PREFIX - Head(frames).chunk_size)

\* the file whose chunks are the first j chunks of file
FirstChunks(file, j) ==
    Bytes(IF j * CHUNK_SIZE < file.len THEN j * CHUNK_SIZE ELSE file.len, file.val)

\* C20: a stream that ends at the end of one of its frames (or before the
\* first) decrypts without error to the plaintext chunks of the frames that
\* are left, which is what the stream of the file made of those chunks
\* decrypts to.
C20_PrefixDecrypts ==
    [][\A cid \in DOMAIN drops :
          RetrievesWithKey(cid) /\ ipfs[cid].len \in FrameStarts(ipfs[cid].frames, 0) =>
              LET drop == drops[cid]
                  j == WholeFrames(ipfs[cid].frames, ipfs[cid].len)
                  shorter == FirstChunks(drop.file, j)
              IN  /\ drop_result'.kind = "Ok"
                  /\ output_file' = Some(FileContent(shorter))
                  /\ \A seed \in Nonces :
                        LET legitimate == stream_decrypt_file(
                                stream_encrypt_file(shorter, drop.key, seed), drop.key)
                        IN  /\ legitimate.kind = "Ok"
                            /\ output_file' = Some(legitimate.written)]_vars

\* a stream of three frames cut back to two came out as the first two chunks
C20_Witness ==
    /\ drop_result.op = "retrieve_drop"
    /\ drop_result.kind = "Ok"
    /\ drop_result.cid \in DOMAIN drops
    /\ LET drop == drops[drop_result.cid]
           stream == ipfs[drop_result.cid]
       IN  /\ Len(drop.stream.frames) = 3
           /\ stream.len < drop.stream.len
           /\ WholeFrames(stream.frames, stream.len) = 2
           /\ stream.len \in FrameStarts(stream.frames, 0)
           /\ output_file = Some(<< Slice(drop.file.val, 0, 2 * CHUNK_SIZE) >>)

(***************************************************************************)
(* ForgeSpec: DropSpec with a daemon that answers a cid with bytes nobody  *)
(* uploaded.                                                               *)
(***************************************************************************)
\* a value of the u32 length prefix far above any frame: 0x7FFFFF00
HugePrefix == 2147483392

\* a frame made without the session key: a length prefix that announces
\* size bytes, and a body sealed, if at all, under a key of the forger's
ForgedFrame(size) ==
    [chunk_size |-> size,
     encrypted_chunk |-> [encrypt_file(Bytes(KEY_LEN, 0), 1,
                                       Slice(0, 0, IF size < NONCE_SIZE + TAG_SIZE THEN 0
                                                   ELSE size - NONCE_SIZE - TAG_SIZE))
                              EXCEPT !.len = size]]

\* the streams the daemon may answer with: a length prefix of 0x7FFFFF00 and
\* nothing after it, a whole frame one byte longer than any the encryptor
\* writes, a whole frame shorter than a nonce
Forgeries ==
    { Stream(<< ForgedFrame(HugePrefix) >>, LEN_PREFIX),
      Stream(<< ForgedFrame(CHUNK_SIZE + NONCE_SIZE + TAG_SIZE + 1) >>,
             LEN_PREFIX + CHUNK_SIZE + NONCE_SIZE + TAG_SIZE + 1),
      Stream(<< ForgedFrame(NONCE_SIZE - 1) >>, LEN_PREFIX + NONCE_SIZE - 1) }

StoreForges(cid, stream) ==
    /\ cid \in DOMAIN ipfs
    /\ cid \in DOMAIN drops
    /\ ipfs[cid] = drops[cid].stream
    /\ ipfs' = [ipfs EXCEPT ![cid] = stream]
    /\ UNCHANGED << drops, output_file, drop_result >>
    /\ UNCHANGED p2pVars
    /\ UNCHANGED << identityVars, sealVars, taskVars >>

NextForge ==
    \/ NextDrop
    \/ \E cid \in DOMAIN ipfs, stream \in Forgeries : StoreForges(cid, stream)

ForgeSpec == Init /\ [][NextForge]_vars

\* the sizes of the buffers the loop of stream_decrypt_file allocates for
\* the encrypted chunks, vec![0u8; chunk_size], from byte pos of the stream
\* on: the buffer is there before read_exact fills it
RECURSIVE AllocatedBy(_, _, _, _)
AllocatedBy(stream, i, pos, key) ==
    IF stream.len - pos < LEN_PREFIX THEN {}
    ELSE LET frame == stream.frames[i] IN
         {frame.chunk_size} \cup
             (IF stream.len - pos - LEN_PREFIX < frame.chunk_size THEN {}
              ELSE IF ~decrypt_file(key, frame.encrypted_chunk).ok THEN {}
              ELSE AllocatedBy(stream, i + 1, pos + LEN_PREFIX + frame.chunk_size, key))

\* C21: the buffers of streaming encryption and decryption stay within
\* CHUNK_SIZE and the 28 bytes of nonce and tag: every chunk read from the
\* file is at most CHUNK_SIZE bytes and every encrypted chunk at most
\* CHUNK_SIZE + 28, and the buffer stream_decrypt_file sizes from a length
\* prefix is at most CHUNK_SIZE + 28 whatever the stream holds.
C21_BuffersBounded ==
    [][/\ \A d \in DOMAIN drops' : \A i \in DOMAIN drops'[d].stream.frames :
             LET frame == drops'[d].stream.frames[i] IN
             /\ frame.encrypted_chunk.data.len <= CHUNK_SIZE
             /\ frame.chunk_size <= CHUNK_SIZE + NONCE_SIZE + TAG_SIZE
       /\ \A cid \in DOMAIN drops :
             RetrievesWithKey(cid) =>
                 \A size \in AllocatedBy(ipfs[cid], 1, 0, drops[cid].key) :
                     size <= CHUNK_SIZE + NONCE_SIZE + TAG_SIZE]_vars

\* C22: when create_drop or retrieve_drop has returned, with Ok or with any
\* error, every buffer that held the session key's bytes or the recovered
\* secret holds zeros.
C22_KeyBuffersZeroed ==
    drop_result.op \in {"create_drop", "retrieve_drop"} =>
        \A b \in drop_result.buffers : b.holds = Bytes(b.holds.len, 0)

\* C23: a SessionKey that was dropped has left zeros where its key field
\* was.
C23_DroppedKeyZeroed ==
    drop_result.op \in {"create_drop", "retrieve_drop"} =>
        \A b \in drop_result.buffers : b.buffer = "session_key.key" => b.holds = Zeroed

(***************************************************************************)
(* SealSpec: SessionKey::encrypt_file and decrypt_file on their own, with  *)
(* someone who alters the bytes in between.                                *)
(***************************************************************************)
MaxOpens == 2

\* the plaintexts: empty, 17 bytes, a full chunk, 17 other bytes
Plaintexts == {Slice(7, 0, 0), Slice(7, 0, 17), Slice(7, 0, CHUNK_SIZE), Slice(9, 0, 17)}

\* sealed holds the bytes as encrypt_file made them and as they are now
Seal(key, nonce, data) ==
    /\ sealed' = Some([made |-> encrypt_file(key, nonce, data),
                       now |-> encrypt_file(key, nonce, data)])
    /\ UNCHANGED opened
    /\ UNCHANGED p2pVars
    /\ UNCHANGED << identityVars, dropVars, taskVars >>

\* what becomes of the bytes in other hands: a ciphertext byte changed, a
\* bit of the tag flipped, another nonce, the last byte cut off, all but 11
\* bytes cut off, nothing left
AlteredBytes(bytes) ==
    (IF bytes.data.len = 0 THEN {}
     ELSE {[bytes EXCEPT !.data = Slice(bytes.data.val + 1, bytes.data.off, bytes.data.len)]})
        \cup {[bytes EXCEPT !.tag = [bytes.tag EXCEPT !.flipped = TRUE]],
              [bytes EXCEPT !.nonce = bytes.nonce + 1],
              [bytes EXCEPT !.len = bytes.len - 1],
              [bytes EXCEPT !.len = NONCE_SIZE - 1],
              [bytes EXCEPT !.len = 0]}

AlterSealed(bytes) ==
    /\ sealed.some
    /\ sealed.value.now = sealed.value.made
    /\ bytes \in AlteredBytes(sealed.value.now)
    /\ sealed' = Some([sealed.value EXCEPT !.now = bytes])
    /\ UNCHANGED opened
    /\ UNCHANGED p2pVars
    /\ UNCHANGED << identityVars, dropVars, taskVars >>

Open(key) ==
    /\ sealed.some
    /\ opened.n < MaxOpens
    /\ opened' = [n |-> opened.n + 1, key |-> key, made |-> sealed.value.made,
                  input |-> sealed.value.now,
                  result |-> decrypt_file(key, sealed.value.now)]
    /\ UNCHANGED sealed
    /\ UNCHANGED p2pVars
    /\ UNCHANGED << identityVars, dropVars, taskVars >>

NextSeal ==
    \/ \E key \in SessionKeys, nonce \in Nonces, data \in Plaintexts : Seal(key, nonce, data)
    \/ sealed.some /\ \E bytes \in AlteredBytes(sealed.value.now) : AlterSealed(bytes)
    \/ \E key \in SessionKeys : Open(key)

SealSpec == Init /\ [][NextSeal]_vars

\* C24: decrypt_file under the key of encrypt_file gives back the plaintext
\* that was encrypted, the empty one too; it is an error, with no plaintext,
\* for an input of fewer than 12 bytes and for an input whose ciphertext or
\* tag is not what encrypt_file made.
C24_SealOpens ==
    opened.n > 0 =>
        /\ opened.input = opened.made /\ opened.key = opened.made.key =>
               /\ opened.result.ok
               /\ opened.result.plaintext = opened.made.data
        /\ \/ opened.input.len < NONCE_SIZE
           \/ opened.input.data # opened.made.data
           \/ opened.input.tag # opened.made.tag
           => /\ ~opened.result.ok
              /\ "plaintext" \notin DOMAIN opened.result

\* the empty plaintext came back
C24_Witness ==
    /\ opened.n > 0
    /\ opened.input = opened.made
    /\ opened.key = opened.made.key
    /\ opened.made.data.len = 0
    /\ opened.result.ok
    /\ opened.result.plaintext = Slice(7, 0, 0)

\* frame f is one that party q built with encrypt_message for the public
\* key of p, its own key in front
SealedBy(q, p, f) ==
    /\ f.data.prefix = PublicKeyOf(q)
    /\ f.data.body.kind = "aead"
    /\ f.data.body.key = MessageKey(shared_secret(q, PublicKeyOf(p)))

\* C25: any two identities derive the same shared secret from their own
\* private key and the other's public key, and so a frame that one encrypted
\* for the other's public key is decrypted by the other with the sender key
\* in front of the frame, to the plaintext that was encrypted.
C25_SecretsAgree ==
    [][/\ \A a, b \in Parties :
             shared_secret(a, PublicKeyOf(b)) = shared_secret(b, PublicKeyOf(a))
       /\ \A p \in Peers, q \in Parties : \A f \in net :
             HandlesFrame(p, f) /\ SealedBy(q, p, f) =>
                 LET decrypted == decrypt_message(shared_secret(p, f.data.prefix), f.data.body)
                 IN  /\ decrypted.ok
                     /\ decrypted.plain = f.data.body.plain]_vars

\* a peer's window got the message another peer encrypted for it
C25_Witness ==
    \E p, q \in Peers :
        /\ p # q
        /\ \E e \in EventsNamed(p, "ghost_msg") : e.payload.from = public_id(q)
        /\ \E c \in published : c.by = q /\ c.ok /\ c.data.prefix = PublicKeyOf(q)
                                   /\ c.topic = InboxTopic(public_id(p))

\* a file of two full chunks and a rest that is shorter than a chunk
TwoChunksAndRest(file) ==
    2 * CHUNK_SIZE < file.len /\ file.len < 3 * CHUNK_SIZE

\* C26, as claimed: the stream of a file of two chunks and a rest has three
\* frames and is longer than the file by more than three times 4 + 12 + 16
\* bytes.
C26_Original ==
    \A d \in DOMAIN drops :
        TwoChunksAndRest(drops[d].file) =>
            /\ Len(drops[d].stream.frames) = 3
            /\ drops[d].stream.len > drops[d].file.len + 3 * (LEN_PREFIX + NONCE_SIZE + TAG_SIZE)

\* C26, amended: the stream has three frames and is longer than the file by
\* exactly three times 4 + 12 + 16 bytes.
C26_Amended ==
    \A d \in DOMAIN drops :
        TwoChunksAndRest(drops[d].file) =>
            /\ Len(drops[d].stream.frames) = 3
            /\ drops[d].stream.len = drops[d].file.len + 3 * (LEN_PREFIX + NONCE_SIZE + TAG_SIZE)

\* a file of two chunks and 17 bytes was encrypted
C26_Witness ==
    \E d \in DOMAIN drops :
        /\ drops[d].file.len = 2 * CHUNK_SIZE + 17
        /\ drops[d].stream = ipfs[drops[d].cid]
        /\ drops[d].stream.len = 2 * CHUNK_SIZE + 17 + 96

\* the bytes write_all put into the output for the frames: four for each
\* length and the encrypted chunk
RECURSIVE Written(_)
Written(frames) ==
    IF frames = << >> THEN 0
    ELSE LEN_PREFIX + Head(frames).encrypted_chunk.len + Written(Tail(frames))

\* the sum over the frames of 4 + 12 + chunk length + 16
RECURSIVE FrameSum(_)
FrameSum(frames) ==
    IF frames = << >> THEN 0
    ELSE 4 + 12 + Head(frames).encrypted_chunk.data.len + 16 + FrameSum(Tail(frames))

\* C27: stream_encrypt_file returns the number of bytes it wrote, the sum
\* over the frames of 4 + 12 + chunk length + 16; there is a frame for each
\* read that is not empty and none, with 0 returned, for an empty file; each
\* length prefix is the length of the encrypted chunk after it and is below
\* 2^32.
C27_ReturnsBytesWritten ==
    \A d \in DOMAIN drops :
        LET drop == drops[d]
            frames == drop.stream.frames
        IN  /\ drop.encrypted_size = Written(frames)
            /\ drop.encrypted_size = FrameSum(frames)
            /\ Len(frames) = (drop.file.len + CHUNK_SIZE - 1) \div CHUNK_SIZE
            /\ \A i \in DOMAIN frames : frames[i].encrypted_chunk.data.len > 0
            /\ drop.file.len = 0 => drop.encrypted_size = 0 /\ frames = << >>
            /\ \A i \in DOMAIN frames :
                  /\ frames[i].chunk_size = frames[i].encrypted_chunk.len
                  /\ frames[i].chunk_size <= CHUNK_SIZE + NONCE_SIZE + TAG_SIZE

\* a file of three full chunks was encrypted
C27_Witness ==
    \E d \in DOMAIN drops :
        /\ drops[d].file.len = 3 * CHUNK_SIZE
        /\ Len(drops[d].stream.frames) = 3
        /\ drops[d].encrypted_size = 3 * (CHUNK_SIZE + 32)

(***************************************************************************)
(* AckSpec: SpecTimer with receipts arriving on the inbox topic, which the *)
(* outsider seals for the peer.                                            *)
(***************************************************************************)
OutsiderReceipt(p, id) ==
    SealedFrame(Outsider, PublicKeyOf(p), ReceiptJson(MessageReceipt(id, public_id(Outsider), 0)), 1)

NextAcks ==
    \/ NextTimer
    \/ \E p \in Senders : \E f \in net : SwarmMessage(p, f)
    \/ \E p \in Senders, id \in Ids : Inject(p, OutsiderReceipt(p, id))

AckSpec == Init /\ [][NextAcks]_vars

\* the entries of p for other message ids than m are the same after the step
OthersKept(p, m) ==
    {e \in pending_acks[p] : e.message_id # m} = {e \in pending_acks'[p] : e.message_id # m}

OutputExists(file) ==
    /\ output_file = Absent
    /\ drop_result.op # "retrieve_drop"
    /\ output_file' = Some(FileContent(file))
    /\ UNCHANGED << ipfs, drops, drop_result >>
    /\ UNCHANGED p2pVars
    /\ UNCHANGED << identityVars, sealVars, taskVars >>

NextOutput ==
    \/ NextDrop
    \/ OutputExists(Bytes(17, 3))

OutputSpec == Init /\ [][NextOutput]_vars

\* the errors of retrieve_dead_drop before stream_decrypt_file is called
EarlyErrors ==
    {"Invalid hex shard", "Invalid share", "Failed to recover key",
     "Invalid recovered key length", "IPFS download failed"}

\* C29: a retrieve_drop call with a shard string that is not hex or not a
\* share, with shares from which no key is recovered or with a download that
\* fails returns an error and leaves the file at the output path as it was,
\* there or not; the output file is written only by a call whose download
\* has completed.
C29_FailsBeforeOutput ==
    [][drop_result'.n # drop_result.n /\ drop_result'.op = "retrieve_drop" =>
          LET call == drop_result' IN
          /\ (\E text \in call.shard_strings : ~ParseShard(text).ok) =>
                 call.kind = "Err" /\ call.steps = << >>
          /\ call.shard_strings = {} => call.err = "Failed to recover key"
          /\ call.err \in EarlyErrors =>
                 /\ call.kind = "Err"
                 /\ ~Did(call, "decrypt")
                 /\ output_file' = output_file
          /\ output_file' # output_file =>
                 /\ call.steps = << "recover", "session_key", "temp_file", "download", "decrypt" >>
                 /\ call.cid \in DOMAIN ipfs]_vars

\* a retrieval whose download failed has left the file at the output path
C29_Witness ==
    /\ drop_result.op = "retrieve_drop"
    /\ drop_result.err = "IPFS download failed"
    /\ output_file = Some(FileContent(Bytes(17, 3)))

(***************************************************************************)
(* RestartSpec: one host on which start_ghost_mode is called while an      *)
(* actor may be running.  Every call spawns a task of its own with a       *)
(* channel of its own; AppState.p2p_sender holds one Sender at a time.     *)
(***************************************************************************)
MaxActors == 3
MaxInbound == 2

\* the task tokio::spawn has started: its loop position, its channel, the
\* Senders of that channel still alive, and what it has done so far
SpawnedActor ==
    [pc |-> "select", chan |-> << >>, senders |-> 1, saw_closed |-> FALSE,
     ghost_msg |-> 0, receipts |-> 0]

\* the assignment to the slot drops the Sender that was in it
DropSender(tasks, i) ==
    IF i = 0 THEN tasks ELSE [tasks EXCEPT ![i].senders = @ - 1]

\* start_ghost_mode: no test of the slot; init_p2p_actor spawns, and the new
\* Sender replaces whatever the slot held.  Without an identity the call
\* returns "Identity not initialized" and changes nothing.
StartGhostMode ==
    /\ identity.some
    /\ Len(actors) < MaxActors
    /\ actors' = Append(DropSender(actors, slot), SpawnedActor)
    /\ slot' = Len(actors) + 1
    /\ UNCHANGED arrived
    /\ UNCHANGED p2pVars
    /\ UNCHANGED << identityVars, dropVars, sealVars >>

\* stop_ghost_mode: Shutdown goes to the channel of the Sender in the slot;
\* the slot is left as it is.  With no Sender, or with the receiver gone,
\* nothing changes.
StopGhostMode ==
    /\ slot # 0
    /\ actors[slot].pc # "exited"
    /\ Len(actors[slot].chan) < MaxQueued
    /\ actors' = [actors EXCEPT ![slot].chan = Append(@, "Shutdown")]
    /\ UNCHANGED << slot, arrived >>
    /\ UNCHANGED p2pVars
    /\ UNCHANGED << identityVars, dropVars, sealVars >>

\* the arm Some(cmd) = rx.recv() with a command in the channel: Shutdown
\* breaks the loop, and the task ends and drops its receiver
TaskShutdown(i) ==
    /\ i \in DOMAIN actors
    /\ actors[i].pc = "select"
    /\ actors[i].chan # << >>
    /\ Head(actors[i].chan) = "Shutdown"
    /\ actors' = [actors EXCEPT ![i].pc = "exited", ![i].chan = << >>]
    /\ UNCHANGED << slot, arrived >>
    /\ UNCHANGED p2pVars
    /\ UNCHANGED << identityVars, dropVars, sealVars >>

\* the same arm when every Sender is dropped and the channel is empty:
\* rx.recv() yields None, the pattern Some(cmd) does not match, select!
\* disables the arm and waits on the other two; the loop goes on
TaskSeesClosed(i) ==
    /\ i \in DOMAIN actors
    /\ actors[i].pc = "select"
    /\ actors[i].chan = << >>
    /\ actors[i].senders = 0
    /\ ~actors[i].saw_closed
    /\ actors' = [actors EXCEPT ![i].saw_closed = TRUE]
    /\ UNCHANGED << slot, arrived >>
    /\ UNCHANGED p2pVars
    /\ UNCHANGED << identityVars, dropVars, sealVars >>

\* a message is published on the inbox topic of the host's identity; every
\* task has subscribed to that topic with a swarm of its own
InboxMessage ==
    /\ actors # << >>
    /\ arrived < MaxInbound
    /\ arrived' = arrived + 1
    /\ UNCHANGED << actors, slot >>
    /\ UNCHANGED p2pVars
    /\ UNCHANGED << identityVars, dropVars, sealVars >>

\* the swarm arm of a task in its loop: the message is decrypted, ghost_msg
\* is emitted, and the receipt queued for it is published
TaskReceives(i) ==
    /\ i \in DOMAIN actors
    /\ actors[i].pc = "select"
    /\ actors[i].ghost_msg < arrived
    /\ actors' = [actors EXCEPT ![i].ghost_msg = @ + 1, ![i].receipts = @ + 1]
    /\ UNCHANGED << slot, arrived >>
    /\ UNCHANGED p2pVars
    /\ UNCHANGED << identityVars, dropVars, sealVars >>

NextRestart ==
    \/ \E salt \in Salts, nonce \in Nonces : init_identity("w1", salt, nonce)
    \/ StartGhostMode
    \/ StopGhostMode
    \/ InboxMessage
    \/ \E i \in 1..MaxActors : TaskShutdown(i)
    \/ \E i \in 1..MaxActors : TaskSeesClosed(i)
    \/ \E i \in 1..MaxActors : TaskReceives(i)

\* a spawned task is polled by the runtime whenever it can take a step
TaskFairness ==
    \A i \in 1..MaxActors :
        /\ WF_vars(TaskShutdown(i))
        /\ WF_vars(TaskSeesClosed(i))
        /\ WF_vars(TaskReceives(i))

RestartSpec == Init /\ [][NextRestart]_vars /\ TaskFairness

\* no Sender of the task's channel is left: the slot holds a later one
Orphaned(i) == i \in DOMAIN actors /\ actors[i].senders = 0

\* the task has left its loop
Ended(i) == i \in DOMAIN actors /\ actors[i].pc = "exited"

\* C30: an actor whose command sender has been replaced by a later
\* start_ghost_mode, so that every sender of its channel is dropped, ends:
\* from then on it leads to a state where the task has left its loop, and
\* with it to at most one actor running.
C30_OrphanedActorEnds ==
    \A i \in 1..MaxActors :
        Orphaned(i) ~> Ended(i)

(***************************************************************************)
(* C31.  A SendMessage command whose send_ghost_message call returned a    *)
(* message_id is dequeued and serviced by the actor, whatever the          *)
(* interleaving with stop_ghost_mode: no command accepted into the channel *)
(* is discarded.  Once the actor has left its loop it dequeues nothing     *)
(* (C11), so the claim needs every returned message id to be dequeued by   *)
(* the step that takes Shutdown.                                           *)
(***************************************************************************)
ReturnedIds(p) == {r.message_id : r \in {x \in returned : x.by = p}}

C31_AcceptedIsServiced ==
    [][\A p \in Peers :
          pc[p] = "select" /\ pc'[p] = "exited" => ReturnedIds(p) \subseteq dequeued'[p]
      ]_vars

(***************************************************************************)
(* C32.  msg_delivered for message id m, reported with target T, is        *)
(* emitted only when the receipt that triggered it came from T: the sender *)
(* public key that prefixes the receipt frame, and the receipt's from      *)
(* field, are those of the target recorded for m in PendingReceipts.  A    *)
(* receipt for m from any other peer does not mark m delivered.            *)
(***************************************************************************)
\* the entry PendingReceipts holds for the message id a receipt frame names
EntryNamedBy(p, f) ==
    LET receipt == Decode(p, f.data).value IN
    CHOOSE e \in pending_acks[p] : e.message_id = receipt.message_id

C32_DeliveredByTargetOnly ==
    [][\A p \in Peers : \A f \in net :
          /\ HandlesFrame(p, f)
          /\ IsVariant(p, f, "Receipt")
          /\ EmitCount(p, "msg_delivered")' > EmitCount(p, "msg_delivered")
          => /\ Base58Encode(f.data.prefix) = EntryNamedBy(p, f).target
             /\ Decode(p, f.data).value.from = EntryNamedBy(p, f).target
      ]_vars

(***************************************************************************)
(* C33.  Every ghost_msg event handed to the host carries a from field     *)
(* equal to the base58 public id of the sender public key that prefixed    *)
(* the frame and was used to decrypt it: no peer makes the host see a      *)
(* message attributed to a public id whose private key it does not hold.   *)
(***************************************************************************)
\* the ghost_msg events the step emits to peer p
NewGhostMsgs(p) ==
    {e \in EventsNamed(p, "ghost_msg")' : CopiesIn(e, events'[p]) > CopiesIn(e, events[p])}

C33_FromIsFrameSender ==
    [][\A p \in Peers : \A f \in net :
          HandlesFrame(p, f) =>
             \A e \in NewGhostMsgs(p) : e.payload.from = Base58Encode(f.data.prefix)
      ]_vars

(***************************************************************************)
(* SkewSpec: SpecTimer with a wall clock that can be set back (by the      *)
(* user, by a time synchronisation).  SystemTime::now, which stamps the    *)
(* entries and which cleanup_old reads, follows the wall clock; the sleep  *)
(* of select! runs on the monotonic clock and keeps its remaining time.    *)
(***************************************************************************)
BackSteps == {SWEEP_PERIOD}

ClockSetBack(d) ==
    /\ now - d >= 0
    /\ now' = now - d
    /\ loopStart' = [p \in Peers |-> IF pc[p] = "select" THEN loopStart[p] - d
                                     ELSE loopStart[p]]
    /\ UNCHANGED << p2p_sender, pc, chan, waiting, pending_acks, receipt_queue, net,
                    events, published, nextId, injected, dequeued, returned, result >>
    /\ UNCHANGED storageVars

NextSkew ==
    \/ NextTimer
    \/ \E d \in BackSteps : ClockSetBack(d)

SkewSpec == Init /\ [][NextSkew]_vars

\* this step is the sleep arm of actor p: cleanup_old has run
SweepStep(p) ==
    /\ pc[p] = "select"
    /\ now >= loopStart[p] + SWEEP_PERIOD
    /\ now' = now
    /\ \/ pc'[p] = "exited"
       \/ pc'[p] = "select" /\ loopStart'[p] = now /\ dequeued'[p] = dequeued[p]

\* C34: cleanup_old computes now - enqueued_at on unsigned 64-bit seconds
\* without underflow for every pending entry; when the wall clock the sweep
\* reads is earlier than the clock read when an entry was added, the entry
\* is kept and the actor keeps running.
C34_SweepSurvivesClockSetBack ==
    [][\A p \in Peers :
          SweepStep(p) =>
             /\ pc'[p] = "select"
             /\ \A e \in pending_acks[p] : e.timestamp > now => e \in pending_acks'[p]
      ]_vars

====
